---- MODULE Spec2Model ----
(***************************************************************************)
(* Inquiry processing pipeline of the Foundation Inquiry Slack bot.        *)
(*                                                                         *)
(* Every accepted reaction event runs ProcessReactionEvent in a goroutine  *)
(* of its own (handlers.go: go h.processSlackEvent).  A goroutine is a     *)
(* process of this model; its steps are the store operations and the       *)
(* calls to external collaborators of InquiryService, in program order.    *)
(* The store is the only shared state.                                     *)
(***************************************************************************)
EXTENDS Integers, Sequences, FiniteSets, TLC

(* ------------------------------ bounds -------------------------------- *)
\* goroutines, one reaction event each
NumProcs == 2
\* distinct Slack messages (messageId values)
NumMsgs == 2
\* items one source returns for one search
MaxHits == 1
\* writes the store rejects in one run of FaultySpec
MaxFaults == 1
\* distinct texts the answer generation can return
NumAnswers == 1
\* configured MAX_SEARCH_RESULTS, kept small so that truncation happens
MaxSearchResults == 2

\* results in one input of filterAndRankResults
MaxItems == 3
\* words in one text given to a function of the search
MaxWords == 3

\* width in bits of the signed integers of the timestamp check (int64 in
\* the program), kept small so that the whole range can be walked
IntBits == 12
\* bytes of a MAC digest (32 for SHA-256)
DigestBytes == 2

(* ------------------------- program constants -------------------------- *)
\* SIMILARITY_THRESHOLD default 0.7, scores are held in percent
SimilarityThreshold == 70
\* generateFallbackResponse lists at most the top 3 results
FallbackLimit == 3
\* verifySlackSignature rejects a timestamp more than 300 seconds old
ReplayWindow == 300
\* extractKeywords keeps a word when len(cleaned) > 2
ShortWordLen == 2
\* sanitizeCQLQuery cuts its result to 100 bytes
CQLMaxLen == 100

Procs == 1..NumProcs
Msgs == 1..NumMsgs
TriggerEmoji == "eyes"
Reactions == {"eyes", "thumbsup"}
EventTypes == {"added", "removed"}
\* relevance scores (percent) an item returned by a source can have
Scores == {50, 100}

VARIABLES
    inquiries,       \* table inquiries: sequence of rows, ID = position
    reactionEvents,  \* table reaction_events: sequence of rows, ID = position
    searchResults,   \* table search_results: searchResults[id] = the rows with
                     \* inquiry_id = id, in insertion order
    replies,         \* thread replies posted to Slack, in posting order
    pc,              \* pc[p]: position of goroutine p
    loc,             \* loc[p]: local variables of goroutine p
    extCalls,        \* log of calls to external collaborators
    faults,          \* number of writes the store may still reject
    signingSecret,   \* config.SlackSigningSecret
    clock,           \* time.Now().Unix()
    request,         \* the HTTP request a handler is given
    response,        \* the HTTP response the handler wrote
    effects,         \* what the handler did besides verifying and answering
    input,           \* the function applied on its own, and its arguments
    output           \* what the function returned

\* the variables of the HTTP handlers
gateVars == <<signingSecret, clock, request, response, effects>>

\* the variables of a function applied on its own
fnVars == <<input, output>>

vars == <<inquiries, reactionEvents, searchResults, replies, pc, loc, extCalls, faults,
          gateVars, fnVars>>

(* ------------------------------- texts -------------------------------- *)
\* a response text: the empty string, a generated answer, or a fallback
NoText == [kind |-> "empty", gen |-> 0, items |-> <<>>]
GenText(n) == [kind |-> "generated", gen |-> n, items |-> <<>>]
NoInfoText == [kind |-> "noinfo", gen |-> 0, items |-> <<>>]

Min(a, b) == IF a < b THEN a ELSE b

\* one bullet of the fallback summary
FallbackEntry(r) == [Source |-> r.Source, SourceID |-> r.SourceID]

generateFallbackResponse(results) ==
    IF Len(results) = 0
    THEN NoInfoText
    ELSE [kind |-> "summary", gen |-> 0,
          items |-> [i \in 1..Min(FallbackLimit, Len(results)) |-> FallbackEntry(results[i])]]

\* sendResponse prefixes the text with a fixed header
FormatResponse(text) == [header |-> "AI Assistant Response", body |-> text]

(* ------------------------------- store -------------------------------- *)
NoInquiry == [ID |-> 0, MessageID |-> 0, MessageText |-> "", Status |-> "",
              ProcessedAt |-> FALSE, ResponseSent |-> FALSE,
              ResponseText |-> NoText, ThreadTimestamp |-> 0]

NoReaction == [ID |-> 0, MessageID |-> 0, Reaction |-> "", EventType |-> "",
               Processed |-> FALSE, InquiryID |-> 0]

\* outcomes the store can give a write that violates no constraint
WriteOutcomes == IF faults > 0 THEN BOOLEAN ELSE {TRUE}

\* a rejected write uses up one of the rejections the store has left
Spend(ok) == faults' = IF ok THEN faults ELSE faults - 1

\* rows of inquiries with message_id = m
InquiriesFor(m) == {i \in 1..Len(inquiries) : inquiries[i].MessageID = m}

\* mutant: the index on message_id is not unique
UniqueViolationOff(m) == FALSE

\* uniqueIndex on Inquiry.MessageID: an insert of a second row fails
UniqueViolation(m) == InquiriesFor(m) # {}

\* db.Where("message_id = ?", m).First(&inquiry): the row with the lowest ID
FirstInquiry(m) == CHOOSE i \in InquiriesFor(m) : \A j \in InquiriesFor(m) : i <= j

\* mutant: the write is not keyed by the primary key of the row and lands
\* on the first row of the table
SaveRowUnkeyed(table, row, ok) ==
    IF ok /\ table # <<>> THEN [table EXCEPT ![1] = row] ELSE table

\* db.Save(row) on a table held as a sequence; ok = FALSE when the write fails
SaveRow(table, row, ok) ==
    IF ok /\ row.ID \in 1..Len(table) THEN [table EXCEPT ![row.ID] = row] ELSE table

TerminalStatus(s) == s \in {"completed", "failed"}

(* ------------------------------ ranking ------------------------------- *)
Swap(s, i, j) == [s EXCEPT ![i] = s[j], ![j] = s[i]]

\* mutant: the comparison of the sort is turned around
RECURSIVE SortInnerAscending(_, _, _)
SortInnerAscending(s, i, j) ==
    IF j > Len(s) THEN s
    ELSE SortInnerAscending(IF s[i].Score > s[j].Score THEN Swap(s, i, j) ELSE s, i, j + 1)

\* the inner loop of the sort: j runs from j to Len(s) for a fixed i
RECURSIVE SortInner(_, _, _)
SortInner(s, i, j) ==
    IF j > Len(s) THEN s
    ELSE SortInner(IF s[i].Score < s[j].Score THEN Swap(s, i, j) ELSE s, i, j + 1)

\* the outer loop: i runs from i to Len(s) - 1
RECURSIVE SortOuter(_, _)
SortOuter(s, i) ==
    IF i >= Len(s) THEN s ELSE SortOuter(SortInner(s, i, i + 1), i + 1)

AboveThreshold(r) == r.Score >= SimilarityThreshold

\* the fields of config.Config that the ranking reads
Config == [SimilarityThreshold |-> SimilarityThreshold, MaxSearchResults |-> MaxSearchResults]

\* mutant: the results are cut to the limit before they are sorted
filterAndRankResultsCutFirst(cfg, results) ==
    LET filtered == SelectSeq(results, LAMBDA r : r.Score >= cfg.SimilarityThreshold)
        cut == IF Len(filtered) > cfg.MaxSearchResults
               THEN SubSeq(filtered, 1, cfg.MaxSearchResults)
               ELSE filtered
    IN SortOuter(cut, 1)

\* filterAndRankResults of a service configured with cfg: the filter, the
\* sort, the cut to cfg.MaxSearchResults
filterAndRankResultsWith(cfg, results) ==
    LET filtered == SelectSeq(results, LAMBDA r : r.Score >= cfg.SimilarityThreshold)
        sorted == SortOuter(filtered, 1)
    IN  IF Len(sorted) > cfg.MaxSearchResults
        THEN SubSeq(sorted, 1, cfg.MaxSearchResults)
        ELSE sorted

filterAndRankResults(results) == filterAndRankResultsWith(Config, results)

(* ------------------------------ strings ------------------------------- *)
\* a string is a sequence of characters, each written as a string of its
\* own.  "E2" and "e2" stand for a capital letter outside ASCII and its
\* small letter, which UTF-8 encodes on two bytes each; "e2:1" stands for
\* the first of the two bytes left alone.  UpperChars holds the capital
\* letters the texts of the model are written with
UpperChars == <<"A", "D", "H", "N", "O", "R", "S", "T", "E2">>
LowerChars == <<"a", "d", "h", "n", "o", "r", "s", "t", "e2">>

\* unicode.ToLower of one character
ToLowerChar(c) ==
    IF \E i \in DOMAIN UpperChars : UpperChars[i] = c
    THEN LowerChars[CHOOSE i \in DOMAIN UpperChars : UpperChars[i] = c]
    ELSE c

\* strings.ToLower
ToLower(s) == [i \in DOMAIN s |-> ToLowerChar(s[i])]

\* the bytes of the encoding of a character
Width(c) == IF c \in {"E2", "e2"} THEN 2 ELSE 1

\* the least element of a non-empty set of integers
Least(S) == CHOOSE x \in S : \A y \in S : x <= y

\* len(s): the length of a string is its number of bytes, one for each
\* character and one more for each character of two bytes
ByteLen(s) == Len(s) + Cardinality({i \in DOMAIN s : Width(s[i]) > 1})

\* s[:n] for n < len(s): the characters that end within the first n bytes
\* of s, and the first byte of a character that n cuts through
BytePrefix(s, n) ==
    LET k == Cardinality({i \in DOMAIN s : ByteLen(SubSeq(s, 1, i)) <= n})
    IN SubSeq(s, 1, k) \o (IF ByteLen(SubSeq(s, 1, k)) < n THEN <<"e2:1">> ELSE <<>>)

\* unicode.IsSpace
IsSpace(c) == c \in {" ", "\t", "\n"}

\* strings.Fields: the maximal runs of characters that are not white space
RECURSIVE Fields(_)
Fields(s) ==
    LET inWord == {i \in DOMAIN s : ~IsSpace(s[i])}
    IN IF inWord = {} THEN <<>>
       ELSE LET b == Least(inWord)
                spaces == {j \in b..Len(s) : IsSpace(s[j])}
                e == IF spaces = {} THEN Len(s) + 1 ELSE Least(spaces)
            IN <<SubSeq(s, b, e - 1)>> \o Fields(SubSeq(s, e, Len(s)))

\* strings.Join
RECURSIVE Join(_, _)
Join(words, sep) ==
    IF words = <<>> THEN <<>>
    ELSE IF Len(words) = 1 THEN words[1]
    ELSE words[1] \o sep \o Join(Tail(words), sep)

\* strings.Trim(s, cutset): the characters of cutset are removed from both
\* ends of s, and from the ends only
RECURSIVE TrimLeft(_, _)
TrimLeft(s, cutset) ==
    IF s # <<>> /\ Head(s) \in cutset THEN TrimLeft(Tail(s), cutset) ELSE s

RECURSIVE TrimRight(_, _)
TrimRight(s, cutset) ==
    IF s # <<>> /\ s[Len(s)] \in cutset THEN TrimRight(SubSeq(s, 1, Len(s) - 1), cutset) ELSE s

Trim(s, cutset) == TrimRight(TrimLeft(s, cutset), cutset)

\* strings.Contains
Contains(s, sub) == \E i \in 0..(Len(s) - Len(sub)) : SubSeq(s, i + 1, i + Len(sub)) = sub

\* strings.ReplaceAll(s, old, new) for a non-empty old: the occurrences of
\* old that do not overlap, found from left to right
RECURSIVE ReplaceAll(_, _, _)
ReplaceAll(s, old, new) ==
    LET found == {i \in 1..(Len(s) - Len(old) + 1) : SubSeq(s, i, i + Len(old) - 1) = old}
    IN IF found = {} THEN s
       ELSE LET i == Least(found)
            IN SubSeq(s, 1, i - 1) \o new \o ReplaceAll(SubSeq(s, i + Len(old), Len(s)), old, new)

(* ----------------------- keywords and scoring ------------------------- *)
\* the cutset extractKeywords trims a word with: ".,!?;:"
TrimCutset == {".", ",", "!", "?", ";", ":"}

stopWords ==
    {<<"t", "h", "e">>, <<"a">>, <<"a", "n">>, <<"a", "n", "d">>, <<"o", "r">>,
    <<"b", "u", "t">>, <<"i", "n">>, <<"o", "n">>, <<"a", "t">>, <<"t", "o">>,
    <<"f", "o", "r">>, <<"o", "f">>, <<"w", "i", "t", "h">>, <<"b", "y">>, <<"i", "s">>,
    <<"a", "r", "e">>, <<"w", "a", "s">>, <<"w", "e", "r", "e">>, <<"b", "e">>,
    <<"b", "e", "e", "n">>, <<"h", "a", "v", "e">>, <<"h", "a", "s">>, <<"h", "a", "d">>,
    <<"d", "o">>, <<"d", "o", "e", "s">>, <<"d", "i", "d">>, <<"w", "i", "l", "l">>,
    <<"w", "o", "u", "l", "d">>, <<"s", "h", "o", "u", "l", "d">>, <<"c", "o", "u", "l", "d">>,
    <<"h", "o", "w">>, <<"w", "h", "a", "t">>, <<"w", "h", "e", "r", "e">>, <<"w", "h", "e", "n">>,
    <<"w", "h", "y">>, <<"w", "h", "o">>}

\* mutant: the stop words are looked up before the punctuation is removed
extractKeywordsStopFirst(query) ==
    LET words == SelectSeq(Fields(ToLower(query)), LAMBDA w : w \notin stopWords)
        cleaned == [i \in DOMAIN words |-> Trim(words[i], TrimCutset)]
    IN SelectSeq(cleaned, LAMBDA w : ByteLen(w) > ShortWordLen)

\* extractKeywords: the words of the lowered query, trimmed, in order,
\* without the short ones and the stop words
extractKeywords(query) ==
    LET words == Fields(ToLower(query))
        cleaned == [i \in DOMAIN words |-> Trim(words[i], TrimCutset)]
    IN SelectSeq(cleaned, LAMBDA w : ByteLen(w) > ShortWordLen /\ w \notin stopWords)

\* the loop of calculateRelevanceScore: 1 for each keyword the content holds
RECURSIVE CountMatches(_, _, _)
CountMatches(content, keywords, i) ==
    IF i > Len(keywords) THEN 0
    ELSE (IF Contains(content, keywords[i]) THEN 1 ELSE 0) + CountMatches(content, keywords, i + 1)

\* the occurrences of sub in s, overlapping ones included
Occurrences(s, sub) ==
    Cardinality({i \in 0..(Len(s) - Len(sub)) : SubSeq(s, i + 1, i + Len(sub)) = sub})

\* mutant: a keyword scores once for each of its occurrences
calculateRelevanceScorePerOccurrence(content, query) ==
    LET keywords == extractKeywords(ToLower(query))
        hits == [i \in DOMAIN keywords |-> Occurrences(ToLower(content), keywords[i])]
        total == Cardinality({ik \in (DOMAIN keywords) \X (1..Len(content)) : ik[2] <= hits[ik[1]]})
    IN IF Len(keywords) > 0 THEN (total * 100) \div Len(keywords) ELSE 0

\* calculateRelevanceScore, in percent: the share of the keywords of the
\* query that the lowered content holds, 0 without keywords
calculateRelevanceScore(content, query) ==
    LET keywords == extractKeywords(ToLower(query))
        score == CountMatches(ToLower(content), keywords, 1)
    IN IF Len(keywords) > 0 THEN (score * 100) \div Len(keywords) ELSE score

(* --------------------------- CQL sanitizer ---------------------------- *)
\* the strings sanitizeCQLQuery replaces by a space, in the order of the
\* slice `dangerous`
dangerous ==
    <<<<" ", "A", "N", "D", " ">>,
      <<" ", "O", "R", " ">>,
      <<" ", "N", "O", "T", " ">>,
      <<"(">>,
      <<")">>,
      <<"[">>,
      <<"]">>,
      <<"{">>,
      <<"}">>,
      <<"\"">>,
      <<"'">>,
      <<"\\">>,
      <<"~">>,
      <<"*">>,
      <<"?">>>>

RECURSIVE ReplaceEach(_, _, _)
ReplaceEach(s, olds, i) ==
    IF i > Len(olds) THEN s ELSE ReplaceEach(ReplaceAll(s, olds[i], <<" ">>), olds, i + 1)

\* mutant: the white space left by the replacements is not collapsed
sanitizeCQLQueryNoCollapse(query) ==
    LET sanitized == ReplaceEach(query, dangerous, 1)
    IN IF ByteLen(sanitized) > CQLMaxLen THEN BytePrefix(sanitized, CQLMaxLen) ELSE sanitized

\* sanitizeCQLQuery: the replacements, strings.Fields and strings.Join, and
\* the cut to 100 bytes
sanitizeCQLQuery(query) ==
    LET replaced == ReplaceEach(query, dangerous, 1)
        sanitized == Join(Fields(replaced), <<" ">>)
    IN IF ByteLen(sanitized) > CQLMaxLen THEN BytePrefix(sanitized, CQLMaxLen) ELSE sanitized

\* SearchPages up to the request: nothing is sent without the base URL and
\* the token; cql holds the query as sanitizeCQLQuery returned it
SearchPages(configured, query) ==
    IF ~configured THEN [sent |-> FALSE, query |-> <<>>]
    ELSE [sent |-> TRUE, query |-> sanitizeCQLQuery(query)]

(* --------------------------- fallback text ---------------------------- *)
\* A text built with "\n" between its lines is the sequence of those lines.

\* len(content) > 100 in generateFallbackResponse
ExcerptMaxLen == 100

\* the message for no search result at all
NoInfoMessage ==
    <<"I", " ", "c", "o", "u", "l", "d", "n", "'", "t", " ", "f", "i", "n", "d", " ", "r",
      "e", "l", "e", "v", "a", "n", "t", " ", "i", "n", "f", "o", "r", "m", "a", "t", "i",
      "o", "n", " ", "t", "o", " ", "a", "n", "s", "w", "e", "r", " ", "y", "o", "u", "r",
      " ", "i", "n", "q", "u", "i", "r", "y", ".", " ", "Y", "o", "u", " ", "m", "i", "g",
      "h", "t", " ", "w", "a", "n", "t", " ", "t", "o", " ", "c", "h", "e", "c", "k", " ",
      "o", "u", "r", " ", "d", "o", "c", "u", "m", "e", "n", "t", "a", "t", "i", "o", "n",
      " ", "o", "r", " ", "r", "e", "a", "c", "h", " ", "o", "u", "t", " ", "t", "o", " ",
      "t", "h", "e", " ", "r", "e", "l", "e", "v", "a", "n", "t", " ", "t", "e", "a", "m",
      " ", "d", "i", "r", "e", "c", "t", "l", "y", ".">>

FallbackHeader ==
    <<"I", " ", "f", "o", "u", "n", "d", " ", "s", "o", "m", "e", " ", "p", "o", "t", "e",
      "n", "t", "i", "a", "l", "l", "y", " ", "r", "e", "l", "e", "v", "a", "n", "t", " ",
      "i", "n", "f", "o", "r", "m", "a", "t", "i", "o", "n", ":">>

FallbackFooter ==
    <<"P", "l", "e", "a", "s", "e", " ", "r", "e", "v", "i", "e", "w", " ", "t", "h", "e",
      "s", "e", " ", "r", "e", "s", "o", "u", "r", "c", "e", "s", " ", "o", "r", " ", "c",
      "o", "n", "t", "a", "c", "t", " ", "t", "h", "e", " ", "r", "e", "l", "e", "v", "a",
      "n", "t", " ", "t", "e", "a", "m", " ", "f", "o", "r", " ", "m", "o", "r", "e", " ",
      "s", "p", "e", "c", "i", "f", "i", "c", " ", "a", "s", "s", "i", "s", "t", "a", "n",
      "c", "e", ".">>

Ellipsis == <<".", ".", ".">>

\* mutant: the content is printed whole
ExcerptWhole(content) == content

\* content[:100] + "..." when the content has more than 100 bytes
Excerpt(content) ==
    IF ByteLen(content) > ExcerptMaxLen
    THEN BytePrefix(content, ExcerptMaxLen) \o Ellipsis
    ELSE content

\* fmt.Sprintf("<bullet> **%s** (%s)\n", result.Title, result.Source); "bullet"
\* stands for the bullet character
BulletLine(title, source) ==
    <<"bullet", " ", "*", "*">> \o title \o <<"*", "*", " ", "(">> \o source \o <<")">>

\* fmt.Sprintf("  %s\n", text)
IndentedLine(text) == <<" ", " ">> \o text

\* the lines one pass of the loop appends to the response
FallbackLines(result) ==
    <<BulletLine(result.Title, result.Source)>>
    \o (IF result.Content # <<>> THEN <<IndentedLine(Excerpt(result.Content))>> ELSE <<>>)
    \o (IF result.URL # <<>> THEN <<IndentedLine(result.URL)>> ELSE <<>>)
    \o <<<<>>>>

\* the passes of the loop from the i-th result on, left at i >= 3
RECURSIVE FallbackLoop(_, _)
FallbackLoop(results, i) ==
    IF i > Len(results) \/ i > FallbackLimit THEN <<>>
    ELSE FallbackLines(results[i]) \o FallbackLoop(results, i + 1)

\* generateFallbackResponse, line by line
generateFallbackResponseText(results) ==
    IF Len(results) = 0
    THEN <<NoInfoMessage>>
    ELSE <<FallbackHeader, <<>>>> \o FallbackLoop(results, 1) \o <<FallbackFooter>>

(* --------------------------- collaborators ---------------------------- *)
\* what one source can return for one search: up to MaxHits items, each
\* identified by its position and carrying the score of its text
HitSeqs == UNION {[1..n -> Scores] : n \in 0..MaxHits}

\* the SearchResult built for the i-th item of a source
MakeResult(id, source, hits, i) ==
    [InquiryID |-> id, Source |-> source, SourceID |-> i, Score |-> hits[i]]

MakeResults(id, source, hits) == [i \in 1..Len(hits) |-> MakeResult(id, source, hits, i)]

\* the rows a loop of db.Create(&result) leaves, mask[i] = the i-th insert succeeded
RECURSIVE Persisted(_, _, _)
Persisted(results, mask, i) ==
    IF i > Len(results) THEN <<>>
    ELSE (IF mask[i] THEN <<results[i]>> ELSE <<>>) \o Persisted(results, mask, i + 1)

\* the inserts of a loop that the store rejected
Rejected(mask) == Cardinality({i \in DOMAIN mask : ~mask[i]})

\* one entry of the log of external calls: goroutine p called `kind` for
\* message m, and what the store held for m at that moment
Call(p, m, kind) ==
    [proc |-> p, msg |-> m, kind |-> kind,
     rowExisted |-> InquiriesFor(m) # {},
     rowTerminal |-> \E i \in InquiriesFor(m) : TerminalStatus(inquiries[i].Status)]

(* -------------------------- signature gate ---------------------------- *)
\* strings are sequences of one-character strings
DigitChars == <<"0", "1", "2", "3", "4", "5", "6", "7", "8", "9">>
HexChars == DigitChars \o <<"a", "b", "c", "d", "e", "f">>
\* every character a header or a body of the model is made of
Alphabet == HexChars \o <<"v", "=", ":", "-", "+", "x", "u", "o", "h", "s">>

\* the byte a character is encoded as
Code(c) == CHOOSE i \in 1..Len(Alphabet) : Alphabet[i] = c

IsDigit(c) == \E i \in 1..Len(DigitChars) : DigitChars[i] = c
DigitVal(c) == (CHOOSE i \in 1..Len(DigitChars) : DigitChars[i] = c) - 1

MaxInt == 2^(IntBits - 1) - 1
MinInt == -(2^(IntBits - 1))

\* the value of a digit string, capped above every magnitude in range
RECURSIVE Magnitude(_, _, _)
Magnitude(s, i, acc) ==
    IF i > Len(s) \/ acc > MaxInt + 1 THEN acc
    ELSE Magnitude(s, i + 1, acc * 10 + DigitVal(s[i]))

\* strconv.ParseInt(s, 10, IntBits): an optional sign, then digits only; a
\* value out of range is an error
ParseInt(s) ==
    IF s = <<>> THEN [ok |-> FALSE, val |-> 0]
    ELSE LET neg == s[1] = "-"
             digits == IF s[1] \in {"+", "-"} THEN Tail(s) ELSE s
         IN IF digits = <<>> \/ \E i \in 1..Len(digits) : ~IsDigit(digits[i])
            THEN [ok |-> FALSE, val |-> 0]
            ELSE LET mag == Magnitude(digits, 1, 0) IN
                 IF neg
                 THEN [ok |-> mag <= -MinInt, val |-> IF mag <= -MinInt THEN -mag ELSE 0]
                 ELSE [ok |-> mag <= MaxInt, val |-> IF mag <= MaxInt THEN mag ELSE 0]

\* the result of an integer operation of the program: two's complement
\* wrap-around to IntBits bits
Wrap(x) == ((x - MinInt) % 2^IntBits) + MinInt

\* time.Now().Unix()-ts > 300
TooOld(now, ts) == Wrap(now - ts) > ReplayWindow

\* the digest of the MAC: a keyed hash of DigestBytes bytes, every byte of
\* the key and of the message taking part, in order
RECURSIVE Absorb(_, _, _)
Absorb(h, s, i) ==
    IF i > Len(s) THEN h
    ELSE Absorb((h * 31 + Code(s[i])) % 256^DigestBytes, s, i + 1)

Mac(key, msg) == Absorb(Absorb(Absorb(7, key, 1), <<":">>, 1), msg, 1)

\* hex.EncodeToString of the digest: two characters for each byte, the
\* most significant byte first
RECURSIVE HexOf(_, _)
HexOf(h, n) ==
    IF n = 0 THEN <<>>
    ELSE HexOf(h \div 256, n - 1) \o <<HexChars[((h % 256) \div 16) + 1], HexChars[(h % 16) + 1]>>

\* calculateSignature: hex(HMAC(secret, "v0:" + timestamp + ":" + body))
calculateSignature(secret, timestamp, body) ==
    HexOf(Mac(secret, <<"v", "0", ":">> \o timestamp \o <<":">> \o body), DigestBytes)

\* a request: the two Slack headers ("" when missing), the raw body, and
\* whether the body can be read to its end
NoRequest == [endpoint |-> "none", timestamp |-> <<>>, signature |-> <<>>, body |-> <<>>,
              readable |-> TRUE]

\* mutant: an empty secret is not told from a configured one
verifySlackSignatureNoSecretCheck(secret, now, r) ==
    IF r.timestamp = <<>> THEN FALSE
    ELSE IF ~ParseInt(r.timestamp).ok THEN FALSE
    ELSE IF TooOld(now, ParseInt(r.timestamp).val) THEN FALSE
    ELSE IF ~r.readable THEN FALSE
    ELSE (<<"v", "0", "=">> \o calculateSignature(secret, r.timestamp, r.body)) = r.signature

\* mutant: the received signature is compared over its own length only
verifySlackSignaturePrefix(secret, now, r) ==
    IF secret = <<>> THEN FALSE
    ELSE IF r.timestamp = <<>> THEN FALSE
    ELSE IF ~ParseInt(r.timestamp).ok THEN FALSE
    ELSE IF TooOld(now, ParseInt(r.timestamp).val) THEN FALSE
    ELSE IF ~r.readable THEN FALSE
    ELSE LET sig == <<"v", "0", "=">> \o calculateSignature(secret, r.timestamp, r.body)
         IN Len(r.signature) <= Len(sig) /\ SubSeq(sig, 1, Len(r.signature)) = r.signature

\* verifySlackSignature, its checks in program order: the secret, the
\* timestamp header, its age, io.ReadAll of the body, and hmac.Equal, which
\* is equality of the two byte strings
verifySlackSignature(secret, now, r) ==
    IF secret = <<>> THEN FALSE
    ELSE IF r.timestamp = <<>> THEN FALSE
    ELSE IF ~ParseInt(r.timestamp).ok THEN FALSE
    ELSE IF TooOld(now, ParseInt(r.timestamp).val) THEN FALSE
    ELSE IF ~r.readable THEN FALSE
    ELSE (<<"v", "0", "=">> \o calculateSignature(secret, r.timestamp, r.body)) = r.signature

(* ------------------------------- state -------------------------------- *)
\* the parameters and locals of ProcessReactionEvent and of the calls it
\* makes.  fetch: what GetMessage gave ("none" before the call); slackErr,
\* confErr: the search of the source returned an error; cancelAt: the
\* position at which the ctx of the goroutine was cancelled, "none" while
\* it is not
InitLocal == [messageID |-> 0, reaction |-> "", eventType |-> "",
              re |-> NoReaction, fetch |-> "none", inquiry |-> NoInquiry,
              all |-> <<>>, results |-> <<>>, response |-> NoText,
              slackErr |-> FALSE, confErr |-> FALSE,
              genErr |-> FALSE, sendErr |-> FALSE, createErr |-> FALSE, ret |-> "none",
              cancelAt |-> "none"]

InitStore ==
    /\ inquiries = <<>>
    /\ reactionEvents = <<>>
    /\ searchResults = [id \in Procs |-> <<>>]
    /\ replies = <<>>
    /\ pc = [p \in Procs |-> "idle"]
    /\ loc = [p \in Procs |-> InitLocal]
    /\ extCalls = {}

\* no request is being handled
NoResponse == [code |-> 0, body |-> "none"]

IdleGate ==
    /\ signingSecret = <<>>
    /\ clock = 0
    /\ request = NoRequest
    /\ response = NoResponse
    /\ effects = {}

\* no function is applied on its own
NoInput == [fn |-> "none", args |-> <<>>]
NoOutput == [done |-> FALSE, value |-> <<>>]

IdleFn ==
    /\ input = NoInput
    /\ output = NoOutput

\* a store that accepts every write that violates no constraint
Init == InitStore /\ IdleGate /\ IdleFn /\ faults = 0

\* a store that rejects up to MaxFaults writes, whichever they are
InitFaulty == InitStore /\ IdleGate /\ IdleFn /\ faults = MaxFaults

\* goroutine p returns from ProcessReactionEvent with r ("nil" or "error")
Return(p, l, r) ==
    /\ pc' = [pc EXCEPT ![p] = "done"]
    /\ loc' = [loc EXCEPT ![p] = [l EXCEPT !.ret = r]]

Goto(p, l, where) ==
    /\ pc' = [pc EXCEPT ![p] = where]
    /\ loc' = [loc EXCEPT ![p] = l]

(* --------------------- ProcessReactionEvent: intake ------------------- *)
\* mutant: the filter looks at the emoji only, not at the event type
RecordReactionAnyEventType(p) ==
    /\ pc[p] = "idle"
    /\ \E m \in Msgs, r \in Reactions, e \in EventTypes :
          LET l == [loc[p] EXCEPT !.messageID = m, !.reaction = r, !.eventType = e] IN
          IF r # TriggerEmoji
          THEN /\ Return(p, l, "nil")
               /\ UNCHANGED <<reactionEvents, faults>>
          ELSE \E ok \in WriteOutcomes :
               /\ Spend(ok)
               /\ IF ok
                  THEN LET row == [ID |-> Len(reactionEvents) + 1, MessageID |-> m,
                                   Reaction |-> r, EventType |-> e,
                                   Processed |-> FALSE, InquiryID |-> 0]
                       IN /\ reactionEvents' = Append(reactionEvents, row)
                          /\ Goto(p, [l EXCEPT !.re = row], "lookup")
                  ELSE /\ Return(p, l, "error")
                       /\ UNCHANGED reactionEvents
    /\ UNCHANGED <<inquiries, searchResults, replies, extCalls, gateVars, fnVars>>

\* entry: the trigger filter, then db.Create(reactionEvent)
RecordReaction(p) ==
    /\ pc[p] = "idle"
    /\ \E m \in Msgs, r \in Reactions, e \in EventTypes :
          LET l == [loc[p] EXCEPT !.messageID = m, !.reaction = r, !.eventType = e] IN
          IF r # TriggerEmoji \/ e # "added"
          THEN /\ Return(p, l, "nil")
               /\ UNCHANGED <<reactionEvents, faults>>
          ELSE \E ok \in WriteOutcomes :
               /\ Spend(ok)
               /\ IF ok
                  THEN LET row == [ID |-> Len(reactionEvents) + 1, MessageID |-> m,
                                   Reaction |-> r, EventType |-> e,
                                   Processed |-> FALSE, InquiryID |-> 0]
                       IN /\ reactionEvents' = Append(reactionEvents, row)
                          /\ Goto(p, [l EXCEPT !.re = row], "lookup")
                  ELSE /\ Return(p, l, "error")
                       /\ UNCHANGED reactionEvents
    /\ UNCHANGED <<inquiries, searchResults, replies, extCalls, gateVars, fnVars>>

\* mutant: only a completed inquiry counts as already processed
LookupExistingCompletedOnly(p) ==
    /\ pc[p] = "lookup"
    /\ LET m == loc[p].messageID IN
       IF InquiriesFor(m) # {} /\ inquiries[FirstInquiry(m)].Status = "completed"
       THEN Goto(p, [loc[p] EXCEPT !.re.Processed = TRUE,
                                   !.re.InquiryID = inquiries[FirstInquiry(m)].ID], "saveSkipped")
       ELSE Goto(p, loc[p], "getMessage")
    /\ UNCHANGED <<inquiries, reactionEvents, searchResults, replies, extCalls, faults, gateVars, fnVars>>

\* db.Where("message_id = ?", messageID).First(&existingInquiry)
LookupExisting(p) ==
    /\ pc[p] = "lookup"
    /\ LET m == loc[p].messageID IN
       IF InquiriesFor(m) # {}
       THEN Goto(p, [loc[p] EXCEPT !.re.Processed = TRUE,
                                   !.re.InquiryID = inquiries[FirstInquiry(m)].ID], "saveSkipped")
       ELSE Goto(p, loc[p], "getMessage")
    /\ UNCHANGED <<inquiries, reactionEvents, searchResults, replies, extCalls, faults, gateVars, fnVars>>

\* the message is known: db.Save(reactionEvent); return nil
SaveSkipped(p) ==
    /\ pc[p] = "saveSkipped"
    /\ \E ok \in WriteOutcomes :
          /\ Spend(ok)
          /\ reactionEvents' = SaveRow(reactionEvents, loc[p].re, ok)
    /\ Return(p, loc[p], "nil")
    /\ UNCHANGED <<inquiries, searchResults, replies, extCalls, gateVars, fnVars>>

\* mutant: the text of the fetched message is not checked
GetMessageNoEmptyCheck(p) ==
    /\ pc[p] = "getMessage"
    /\ \E res \in {"error", "empty", "text"} :
          /\ extCalls' = extCalls \cup {Call(p, loc[p].messageID, "getMessage")}
          /\ IF res # "error"
             THEN Goto(p, [loc[p] EXCEPT !.fetch = res], "createInquiry")
             ELSE Return(p, [loc[p] EXCEPT !.fetch = res], "error")
    /\ UNCHANGED <<inquiries, reactionEvents, searchResults, replies, faults, gateVars, fnVars>>

\* s.slack.GetMessage(channelID, messageID) and the empty-text check
GetMessage(p) ==
    /\ pc[p] = "getMessage"
    /\ \E res \in {"error", "empty", "text"} :
          /\ extCalls' = extCalls \cup {Call(p, loc[p].messageID, "getMessage")}
          /\ IF res = "text"
             THEN Goto(p, [loc[p] EXCEPT !.fetch = res], "createInquiry")
             ELSE Return(p, [loc[p] EXCEPT !.fetch = res], "error")
    /\ UNCHANGED <<inquiries, reactionEvents, searchResults, replies, faults, gateVars, fnVars>>

(* ------------------------- ProcessInquiry ----------------------------- *)
\* mutant: the row is built but its insert is left to the later saves
CreateInquiryLazy(p) ==
    /\ pc[p] = "createInquiry"
    /\ LET row == [NoInquiry EXCEPT !.ID = Len(inquiries) + 1, !.MessageID = loc[p].messageID,
                                    !.MessageText = "text", !.Status = "pending"]
       IN Goto(p, [loc[p] EXCEPT !.inquiry = row], "saveProcessing")
    /\ UNCHANGED <<inquiries, reactionEvents, searchResults, replies, extCalls, faults, gateVars, fnVars>>

\* mutant: the error of db.Create is logged and the pipeline goes on
CreateInquiryIgnoreErr(p) ==
    /\ pc[p] = "createInquiry"
    /\ \E ok \in WriteOutcomes :
          LET m == loc[p].messageID IN
          /\ Spend(ok)
          /\ IF ok /\ ~UniqueViolation(m)
             THEN LET row == [NoInquiry EXCEPT !.ID = Len(inquiries) + 1, !.MessageID = m,
                                               !.MessageText = "text", !.Status = "pending"]
                  IN /\ inquiries' = Append(inquiries, row)
                     /\ Goto(p, [loc[p] EXCEPT !.inquiry = row], "saveProcessing")
             ELSE /\ UNCHANGED inquiries
                  /\ Goto(p, [loc[p] EXCEPT !.createErr = TRUE], "saveProcessing")
    /\ UNCHANGED <<reactionEvents, searchResults, replies, extCalls, gateVars, fnVars>>

\* db.Create(inquiry) with Status "pending"; a failure returns the error
CreateInquiry(p) ==
    /\ pc[p] = "createInquiry"
    /\ \E ok \in WriteOutcomes :
          LET m == loc[p].messageID IN
          /\ Spend(ok)
          /\ IF ok /\ ~UniqueViolation(m)
             THEN LET row == [NoInquiry EXCEPT !.ID = Len(inquiries) + 1, !.MessageID = m,
                                               !.MessageText = "text", !.Status = "pending"]
                  IN /\ inquiries' = Append(inquiries, row)
                     /\ Goto(p, [loc[p] EXCEPT !.inquiry = row], "saveProcessing")
             ELSE /\ UNCHANGED inquiries
                  /\ Return(p, [loc[p] EXCEPT !.createErr = TRUE], "error")
    /\ UNCHANGED <<reactionEvents, searchResults, replies, extCalls, gateVars, fnVars>>

\* mutant: the update to "processing" is left out
SaveProcessingSkip(p) ==
    /\ pc[p] = "saveProcessing"
    /\ Goto(p, loc[p], "searchSlack")
    /\ UNCHANGED <<inquiries, reactionEvents, searchResults, replies, extCalls, faults, gateVars, fnVars>>

\* mutant: a failure of the update to "processing" ends the pipeline
SaveProcessingFatal(p) ==
    /\ pc[p] = "saveProcessing"
    /\ LET l == [loc[p] EXCEPT !.inquiry.Status = "processing"] IN
       \E ok \in WriteOutcomes :
          /\ Spend(ok)
          /\ inquiries' = SaveRow(inquiries, l.inquiry, ok)
          /\ IF ok THEN Goto(p, l, "searchSlack") ELSE Return(p, l, "error")
    /\ UNCHANGED <<reactionEvents, searchResults, replies, extCalls, gateVars, fnVars>>

\* inquiry.Status = "processing"; db.Save(inquiry)
SaveProcessing(p) ==
    /\ pc[p] = "saveProcessing"
    /\ LET l == [loc[p] EXCEPT !.inquiry.Status = "processing"] IN
       /\ \E ok \in WriteOutcomes :
             /\ Spend(ok)
             /\ inquiries' = SaveRow(inquiries, l.inquiry, ok)
       /\ Goto(p, l, "searchSlack")
    /\ UNCHANGED <<reactionEvents, searchResults, replies, extCalls, gateVars, fnVars>>

\* what a search of one source can give: an error, or a sequence of items
SearchOutcomes == {o \in [ok : BOOLEAN, hits : HitSeqs] : o.ok \/ o.hits = <<>>}

\* SearchAll ends with filterAndRankResults(allResults); allResults is a
\* local of SearchAll and is gone when it returns
RankLocal(l) == [l EXCEPT !.results = filterAndRankResults(l.all), !.all = <<>>]

\* mutant: an error of a source discards what the other source gave
SearchSourceDiscard(p, source, next, last) ==
    \E o \in SearchOutcomes :
       LET results == MakeResults(loc[p].inquiry.ID, source, o.hits)
           all == IF o.ok THEN loc[p].all \o results ELSE <<>>
           l == IF last THEN [loc[p] EXCEPT !.all = all, !.confErr = ~o.ok]
                        ELSE [loc[p] EXCEPT !.all = all, !.slackErr = ~o.ok]
       IN /\ extCalls' = extCalls \cup {Call(p, loc[p].messageID, source)}
          /\ \E mask \in [1..Len(results) -> WriteOutcomes] :
                /\ Rejected(mask) <= faults
                /\ faults' = faults - Rejected(mask)
                /\ searchResults' = [searchResults EXCEPT ![loc[p].inquiry.ID] =
                                        @ \o Persisted(results, mask, 1)]
          /\ Goto(p, IF last THEN RankLocal(l) ELSE l, next)

\* mutant: only the results that pass the threshold are given to the store
SearchSourceFilterFirst(p, source, next, last) ==
    \E o \in SearchOutcomes :
       LET results == MakeResults(loc[p].inquiry.ID, source, o.hits)
           kept == SelectSeq(results, AboveThreshold)
           all == IF o.ok THEN loc[p].all \o results ELSE loc[p].all
           l == IF last THEN [loc[p] EXCEPT !.all = all, !.confErr = ~o.ok]
                        ELSE [loc[p] EXCEPT !.all = all, !.slackErr = ~o.ok]
       IN /\ extCalls' = extCalls \cup {Call(p, loc[p].messageID, source)}
          /\ \E mask \in [1..Len(kept) -> WriteOutcomes] :
                /\ Rejected(mask) <= faults
                /\ faults' = faults - Rejected(mask)
                /\ searchResults' = [searchResults EXCEPT ![loc[p].inquiry.ID] =
                                        @ \o Persisted(kept, mask, 1)]
          /\ Goto(p, IF last THEN RankLocal(l) ELSE l, next)

\* one source of SearchAll: the call, the results built, the rows created;
\* an error of the source is logged and leaves allResults as it was.
\* last = TRUE for the second source, after which SearchAll ranks and returns
SearchSource(p, source, next, last) ==
    \E o \in SearchOutcomes :
       LET results == MakeResults(loc[p].inquiry.ID, source, o.hits)
           all == IF o.ok THEN loc[p].all \o results ELSE loc[p].all
           l == IF last THEN [loc[p] EXCEPT !.all = all, !.confErr = ~o.ok]
                        ELSE [loc[p] EXCEPT !.all = all, !.slackErr = ~o.ok]
       IN /\ extCalls' = extCalls \cup {Call(p, loc[p].messageID, source)}
          /\ \E mask \in [1..Len(results) -> WriteOutcomes] :
                /\ Rejected(mask) <= faults
                /\ faults' = faults - Rejected(mask)
                /\ searchResults' = [searchResults EXCEPT ![loc[p].inquiry.ID] =
                                        @ \o Persisted(results, mask, 1)]
          /\ Goto(p, IF last THEN RankLocal(l) ELSE l, next)

\* mutant: the answer generation does not wait for the docs search
SearchSlackOnly(p) ==
    /\ pc[p] = "searchSlack"
    /\ SearchSource(p, "slack", "generate", TRUE)
    /\ UNCHANGED <<inquiries, reactionEvents, replies, gateVars, fnVars>>

\* searchSlack: s.slack.SearchMessages, then db.Create of every result
SearchSlack(p) ==
    /\ pc[p] = "searchSlack"
    /\ SearchSource(p, "slack", "searchConfluence", FALSE)
    /\ UNCHANGED <<inquiries, reactionEvents, replies, gateVars, fnVars>>

\* searchConfluence: s.confluence.SearchPages, then db.Create of every
\* result, then the filter and the ranking that end SearchAll
SearchConfluence(p) ==
    /\ pc[p] = "searchConfluence"
    /\ SearchSource(p, "confluence", "generate", TRUE)
    /\ UNCHANGED <<inquiries, reactionEvents, replies, gateVars, fnVars>>

\* the errors of the two sources are locals of SearchAll: ProcessInquiry
\* never sees them, and they are dropped when it goes on
SearchDone(l) == [l EXCEPT !.slackErr = FALSE, !.confErr = FALSE]

\* the outcomes of the HTTP request GenerateResponse builds with
\* http.NewRequestWithContext(ctx, ...): client.Do fails when ctx is cancelled
GenerateOutcomes(l) == IF l.cancelAt # "none" THEN {FALSE} ELSE BOOLEAN

\* mutant: the request is built without the ctx of the caller
GenerateResponseNoCtx(p) ==
    /\ pc[p] = "generate"
    /\ \E ok \in BOOLEAN :
          /\ extCalls' = extCalls \cup {Call(p, loc[p].messageID, "generate")}
          /\ IF ok
             THEN \E n \in 1..NumAnswers :
                     Goto(p, [SearchDone(loc[p]) EXCEPT !.response = GenText(n)], "sendResponse")
             ELSE Goto(p, [SearchDone(loc[p]) EXCEPT
                              !.genErr = TRUE,
                              !.response = generateFallbackResponse(loc[p].results)],
                       "sendResponse")
    /\ UNCHANGED <<inquiries, reactionEvents, searchResults, replies, faults, gateVars, fnVars>>

\* s.llm.GenerateResponse; on an error the fallback text is synthesized
GenerateResponse(p) ==
    /\ pc[p] = "generate"
    /\ \E ok \in GenerateOutcomes(loc[p]) :
          /\ extCalls' = extCalls \cup {Call(p, loc[p].messageID, "generate")}
          /\ IF ok
             THEN \E n \in 1..NumAnswers :
                     Goto(p, [SearchDone(loc[p]) EXCEPT !.response = GenText(n)], "sendResponse")
             ELSE Goto(p, [SearchDone(loc[p]) EXCEPT
                              !.genErr = TRUE,
                              !.response = generateFallbackResponse(loc[p].results)],
                       "sendResponse")
    /\ UNCHANGED <<inquiries, reactionEvents, searchResults, replies, faults, gateVars, fnVars>>

\* sendResponse up to the reply post: s.slack.PostThreadReply
SendResponse(p) ==
    /\ pc[p] = "sendResponse"
    /\ \E ok \in BOOLEAN :
          /\ extCalls' = extCalls \cup {Call(p, loc[p].messageID, "postThreadReply")}
          /\ IF ok
             THEN LET ts == Len(replies) + 1 IN
                  \* the reply is threaded to the timestamp of the fetched
                  \* message, which is the message the reaction was put on
                  /\ replies' = Append(replies, [ts |-> ts, thread |-> loc[p].inquiry.MessageID,
                                                 text |-> FormatResponse(loc[p].response)])
                  /\ Goto(p, [loc[p] EXCEPT !.inquiry.ThreadTimestamp = ts], "saveThread")
             ELSE /\ UNCHANGED replies
                  /\ Goto(p, [loc[p] EXCEPT !.sendErr = TRUE], "finalize")
    /\ UNCHANGED <<inquiries, reactionEvents, searchResults, faults, gateVars, fnVars>>

\* sendResponse after a successful post: db.Save(inquiry) with the thread id
SaveThread(p) ==
    /\ pc[p] = "saveThread"
    /\ \E ok \in WriteOutcomes :
          /\ Spend(ok)
          /\ inquiries' = SaveRow(inquiries, loc[p].inquiry, ok)
    /\ Goto(p, loc[p], "finalize")
    /\ UNCHANGED <<reactionEvents, searchResults, replies, extCalls, gateVars, fnVars>>

\* mutant: a failed reply post is not told from a delivered one
FinalInquiryIgnoreSendErr(l) ==
    IF l.genErr
    THEN [l.inquiry EXCEPT !.Status = "failed", !.ResponseText = l.response]
    ELSE [l.inquiry EXCEPT !.Status = "completed", !.ProcessedAt = TRUE,
                           !.ResponseSent = TRUE, !.ResponseText = l.response]

\* mutant: the fallback branch marks the inquiry failed without its text
FinalInquiryNoFallbackText(l) ==
    IF l.genErr
    THEN [l.inquiry EXCEPT !.Status = "failed"]
    ELSE IF l.sendErr
    THEN [l.inquiry EXCEPT !.Status = "failed", !.ResponseText = l.response]
    ELSE [l.inquiry EXCEPT !.Status = "completed", !.ProcessedAt = TRUE,
                           !.ResponseSent = TRUE, !.ResponseText = l.response]

\* mutant: a delivered fallback reply counts as a sent response
FinalInquirySentOnFallback(l) ==
    IF l.genErr \/ l.sendErr
    THEN [l.inquiry EXCEPT !.Status = "failed", !.ResponseText = l.response,
                           !.ResponseSent = ~l.sendErr]
    ELSE [l.inquiry EXCEPT !.Status = "completed", !.ProcessedAt = TRUE,
                           !.ResponseSent = TRUE, !.ResponseText = l.response]

\* the fields ProcessInquiry sets on its inquiry before the last db.Save
FinalInquiry(l) ==
    IF l.genErr \/ l.sendErr
    THEN [l.inquiry EXCEPT !.Status = "failed", !.ResponseText = l.response]
    ELSE [l.inquiry EXCEPT !.Status = "completed", !.ProcessedAt = TRUE,
                           !.ResponseSent = TRUE, !.ResponseText = l.response]

\* mutant: a failed reply post is logged and ProcessInquiry returns nil
FinalizeSwallowSendErr(p) ==
    /\ pc[p] = "finalize"
    /\ LET l == [loc[p] EXCEPT !.inquiry = FinalInquiry(loc[p])] IN
       /\ \E ok \in WriteOutcomes :
             /\ Spend(ok)
             /\ inquiries' = SaveRow(inquiries, l.inquiry, ok)
       /\ IF l.genErr
          THEN Return(p, l, "error")
          ELSE Goto(p, l, "linkReaction")
    /\ UNCHANGED <<reactionEvents, searchResults, replies, extCalls, gateVars, fnVars>>

\* mutant: the fallback branch lacks its return and falls through to the
\* send of the (empty) response
FinalizeNoReturn(p) ==
    /\ pc[p] = "finalize"
    /\ LET l == [loc[p] EXCEPT !.inquiry = FinalInquiry(loc[p])] IN
       /\ \E ok \in WriteOutcomes :
             /\ Spend(ok)
             /\ inquiries' = SaveRow(inquiries, l.inquiry, ok)
       /\ IF l.genErr
          THEN Goto(p, [l EXCEPT !.genErr = FALSE, !.response = NoText], "sendResponse")
          ELSE IF l.sendErr
          THEN Return(p, l, "error")
          ELSE Goto(p, l, "linkReaction")
    /\ UNCHANGED <<reactionEvents, searchResults, replies, extCalls, gateVars, fnVars>>

\* the last db.Save(inquiry) of ProcessInquiry and its return value
Finalize(p) ==
    /\ pc[p] = "finalize"
    /\ LET l == [loc[p] EXCEPT !.inquiry = FinalInquiry(loc[p])] IN
       /\ \E ok \in WriteOutcomes :
             /\ Spend(ok)
             /\ inquiries' = SaveRow(inquiries, l.inquiry, ok)
       /\ IF l.genErr \/ l.sendErr
          THEN Return(p, l, "error")
          ELSE Goto(p, l, "linkReaction")
    /\ UNCHANGED <<reactionEvents, searchResults, replies, extCalls, gateVars, fnVars>>

(* ------------- ProcessReactionEvent: after ProcessInquiry ------------- *)
\* mutant: the event is marked processed without the link to the inquiry
LinkReactionNoLink(p) ==
    /\ pc[p] = "linkReaction"
    /\ LET m == loc[p].messageID IN
       IF InquiriesFor(m) # {}
       THEN Goto(p, [loc[p] EXCEPT !.re.Processed = TRUE], "saveReaction")
       ELSE Return(p, loc[p], "nil")
    /\ UNCHANGED <<inquiries, reactionEvents, searchResults, replies, extCalls, faults, gateVars, fnVars>>

\* s.GetInquiryByMessageID(messageID)
LinkReaction(p) ==
    /\ pc[p] = "linkReaction"
    /\ LET m == loc[p].messageID IN
       IF InquiriesFor(m) # {}
       THEN Goto(p, [loc[p] EXCEPT !.re.Processed = TRUE,
                                   !.re.InquiryID = inquiries[FirstInquiry(m)].ID], "saveReaction")
       ELSE Return(p, loc[p], "nil")
    /\ UNCHANGED <<inquiries, reactionEvents, searchResults, replies, extCalls, faults, gateVars, fnVars>>

\* db.Save(reactionEvent); return nil
SaveReaction(p) ==
    /\ pc[p] = "saveReaction"
    /\ \E ok \in WriteOutcomes :
          /\ Spend(ok)
          /\ reactionEvents' = SaveRow(reactionEvents, loc[p].re, ok)
    /\ Return(p, loc[p], "nil")
    /\ UNCHANGED <<inquiries, searchResults, replies, extCalls, gateVars, fnVars>>

(* --------------------------- HTTP handlers ---------------------------- *)
\* the decimal string of a natural number, and of an integer
RECURSIVE Decimal(_)
Decimal(n) == IF n < 10 THEN <<DigitChars[n + 1]>> ELSE Decimal(n \div 10) \o <<DigitChars[(n % 10) + 1]>>

Itoa(n) == IF n < 0 THEN <<"-">> \o Decimal(-n) ELSE Decimal(n)

\* request bodies: one character stands for a payload.  "u": the JSON of a
\* url_verification, "e": the JSON of an event_callback, "o": the JSON of
\* another type, "h": the form of /inquiry-help, "s": the form of
\* /inquiry-status, "x": neither JSON nor a known command
Bodies == {<<"u">>, <<"e">>, <<"o">>, <<"h">>, <<"s">>, <<"x">>}

\* c.ShouldBindJSON(&event)
ShouldBindJSON(body) ==
    IF body = <<"u">> THEN [ok |-> TRUE, Type |-> "url_verification"]
    ELSE IF body = <<"e">> THEN [ok |-> TRUE, Type |-> "event_callback"]
    ELSE IF body = <<"o">> THEN [ok |-> TRUE, Type |-> "other"]
    ELSE [ok |-> FALSE, Type |-> ""]

\* c.PostForm("command")
PostFormCommand(body) ==
    IF body = <<"h">> THEN "/inquiry-help"
    ELSE IF body = <<"s">> THEN "/inquiry-status"
    ELSE ""

Endpoints == {"events", "slash", "interactive"}
Secrets == {<<>>, <<"a">>, <<"b">>}
Clocks == {1000, 1500}

\* values of X-Slack-Request-Timestamp: missing, not a number, out of
\* range, and numbers around every edge of the age check
TimestampHeaders(now) ==
    {<<>>, <<"x">>, <<"1", "x">>, <<"-">>, <<"+", "5">>, Itoa(MaxInt + 1), Itoa(MinInt - 1)}
    \cup {Itoa(n) : n \in {MinInt, MinInt + 1, now - MaxInt - 1, now - MaxInt, 0,
                           now - ReplayWindow - 1, now - ReplayWindow,
                           now - ReplayWindow + 1, now, now + 1, MaxInt}}

\* a character other than c
Other(c) == IF c = "0" THEN "1" ELSE "0"

\* values of X-Slack-Signature for a request: missing, the right one, the
\* right one under another secret, without its prefix, cut short, extended,
\* and with any single character altered
Signatures(secret, timestamp, body) ==
    LET sig == <<"v", "0", "=">> \o calculateSignature(secret, timestamp, body) IN
    {<<>>, sig, <<"v", "0", "=">> \o calculateSignature(<<"x">>, timestamp, body),
     SubSeq(sig, 4, Len(sig)), SubSeq(sig, 1, Len(sig) - 1), sig \o <<"0">>}
    \cup {[sig EXCEPT ![i] = Other(sig[i])] : i \in 1..Len(sig)}

InitGate ==
    /\ InitStore
    /\ IdleFn
    /\ faults = 0
    /\ signingSecret \in Secrets
    /\ clock \in Clocks
    /\ \E e \in Endpoints, t \in TimestampHeaders(clock), b \in Bodies :
          \E g \in Signatures(signingSecret, t, b), rd \in BOOLEAN :
             request = [endpoint |-> e, timestamp |-> t, signature |-> g, body |-> b,
                        readable |-> rd]
    /\ response = NoResponse
    /\ effects = {}

Respond(code, body, did) ==
    /\ response' = [code |-> code, body |-> body]
    /\ effects' = effects \cup did
    /\ UNCHANGED <<signingSecret, clock, request>>
    /\ UNCHANGED <<inquiries, reactionEvents, searchResults, replies, pc, loc, extCalls, faults, fnVars>>

\* mutant: the payload is decoded and the challenge answered before the
\* signature is looked at
HandleSlackEventsBindFirst ==
    /\ request.endpoint = "events" /\ response = NoResponse
    /\ LET event == ShouldBindJSON(request.body) IN
       IF event.ok /\ event.Type = "url_verification"
       THEN Respond(200, "challenge", {"bindJSON", "challenge"})
       ELSE IF ~verifySlackSignature(signingSecret, clock, request)
       THEN Respond(401, "invalid signature", {"bindJSON"})
       ELSE IF ~event.ok
       THEN Respond(400, "invalid JSON", {"bindJSON"})
       ELSE IF event.Type = "event_callback"
       THEN Respond(200, "ok", {"bindJSON", "goroutine"})
       ELSE Respond(200, "ok", {"bindJSON"})

\* HandleSlackEvents: the gate, the decoding, the challenge echo, and the
\* goroutine started for an event_callback
HandleSlackEvents ==
    /\ request.endpoint = "events" /\ response = NoResponse
    /\ IF ~verifySlackSignature(signingSecret, clock, request)
       THEN Respond(401, "invalid signature", {})
       ELSE LET event == ShouldBindJSON(request.body) IN
            IF ~event.ok
            THEN Respond(400, "invalid JSON", {"bindJSON"})
            ELSE IF event.Type = "url_verification"
            THEN Respond(200, "challenge", {"bindJSON", "challenge"})
            ELSE IF event.Type = "event_callback"
            THEN Respond(200, "ok", {"bindJSON", "goroutine"})
            ELSE Respond(200, "ok", {"bindJSON"})

\* HandleSlashCommands: the gate, the form, and the command; the status
\* command reads the inquiries table (ListRecentInquiries)
HandleSlashCommands ==
    /\ request.endpoint = "slash" /\ response = NoResponse
    /\ IF ~verifySlackSignature(signingSecret, clock, request)
       THEN Respond(401, "invalid signature", {})
       ELSE LET command == PostFormCommand(request.body) IN
            IF command = "/inquiry-help"
            THEN Respond(200, "help", {"postForm"})
            ELSE IF command = "/inquiry-status"
            THEN Respond(200, "status", {"postForm", "listInquiries"})
            ELSE Respond(200, "unknown command", {"postForm"})

\* HandleInteractiveComponents: the gate, then an acknowledgement
HandleInteractiveComponents ==
    /\ request.endpoint = "interactive" /\ response = NoResponse
    /\ IF ~verifySlackSignature(signingSecret, clock, request)
       THEN Respond(401, "invalid signature", {})
       ELSE Respond(200, "ok", {"acknowledge"})

(* ------------------- functions applied on their own ------------------- *)
\* the variables of the pipeline
pipelineVars == <<inquiries, reactionEvents, searchResults, replies, pc, loc, extCalls, faults>>

\* scores (percent) of the results filterAndRankResults is given
RankScores == {60, 80, 90}
\* values of SIMILARITY_THRESHOLD (percent) and of MAX_SEARCH_RESULTS
Thresholds == {0, 70, 90, 100}
Limits == 0..MaxItems

\* the results of one search in discovery order: SourceID is the position
RankInputs ==
    {[fn |-> "filterAndRankResults",
      args |-> [config |-> [SimilarityThreshold |-> t, MaxSearchResults |-> n],
                results |-> MakeResults(1, "slack", h)]] :
        t \in Thresholds, n \in Limits, h \in UNION {[1..k -> RankScores] : k \in 0..MaxItems}}

\* white space between two words of a text
Separators == {<<" ">>, <<"\t">>, <<" ", " ">>}

\* the texts of up to MaxWords words of a vocabulary
Phrases(words) ==
    {Join(ws, sep) : ws \in UNION {[1..k -> words] : k \in 0..MaxWords}, sep \in Separators}

\* words of a question: capitals, stop words, a short word, punctuation at
\* the end and around, a word of two characters and three bytes
QueryWords ==
    {<<"H", "o", "w">>, <<"t", "o">>, <<"d", "e", "p", "l", "o", "y">>, <<"S", "e", "r", "v", "i", "c", "e", ",">>,
    <<"(", "a", "p", "i", ")">>, <<"E2", "a">>, <<"!", "A", "n", "d", "!">>}

\* texts of an item of a source
Contents ==
    {<<"D", "e", "p", "l", "o", "y", " ", "t", "h", "e", " ", "S", "e", "r", "v", "i", "c", "e">>,
    <<"D", "e", "p", "l", "o", "y", " ", "D", "e", "p", "l", "o", "y">>, <<"a", " ", "(", "a", "p", "i", ")", " ", "e2", "a">>}

KeywordInputs == {[fn |-> "extractKeywords", args |-> [query |-> q]] : q \in Phrases(QueryWords)}

ScoreInputs ==
    {[fn |-> "calculateRelevanceScore", args |-> [content |-> c, query |-> q]] :
        c \in Contents, q \in Phrases(QueryWords)}

\* a word of 51 characters and 102 bytes
LongWord == [i \in 1..51 |-> "e2"]

\* words of a query given to the documentation platform: the operators,
\* plain words, every character of the slice `dangerous`, a word longer
\* than the limit
CQLWords ==
    {<<"A", "N", "D">>, <<"O", "R">>, <<"N", "O", "T">>, <<"a">>, <<"(", "b", ")", "[", "c", "]", "{", "d", "}">>,
    <<"\"", "e", "'">>, <<"\\", "~", "*", "?">>}
    \cup {LongWord}

SanitizeInputs == {[fn |-> "sanitizeCQLQuery", args |-> [query |-> q]] : q \in Phrases(CQLWords)}

SearchPagesInputs ==
    {[fn |-> "SearchPages", args |-> [configured |-> c, query |-> q]] :
        c \in BOOLEAN, q \in Phrases(CQLWords)}

\* texts of a search result: none, a short one, one of exactly 100 bytes,
\* one of 101 bytes, one whose 100th byte lies inside a character, one of
\* 60 characters and 120 bytes
FallbackContents ==
    <<<<>>, <<"a", "b", "c">>, [i \in 1..100 |-> "x"], [i \in 1..101 |-> "x"],
      [i \in 1..100 |-> IF i = 100 THEN "e2" ELSE "x"], [i \in 1..60 |-> "e2"]>>

\* the search results generateFallbackResponse can be given: the i-th has the
\* title Ti and the i-th text, the odd ones come from Slack and have a URL
FallbackResults ==
    {[Title |-> <<"T">> \o Decimal(i),
      Source |-> IF i % 2 = 1 THEN <<"s", "l", "a", "c", "k">>
                 ELSE <<"c", "o", "n", "f", "l", "u", "e", "n", "c", "e">>,
      Content |-> FallbackContents[i],
      URL |-> IF i % 2 = 1 THEN <<"u">> \o Decimal(i) ELSE <<>>] : i \in DOMAIN FallbackContents}

FallbackInputs ==
    {[fn |-> "generateFallbackResponse", args |-> [searchResults |-> s]] :
        s \in UNION {[1..k -> FallbackResults] : k \in 0..FallbackLimit + 1}}

InitFunction ==
    /\ InitStore
    /\ IdleGate
    /\ faults = 0
    /\ input \in RankInputs \cup KeywordInputs \cup ScoreInputs \cup SanitizeInputs
                 \cup SearchPagesInputs \cup FallbackInputs
    /\ output = NoOutput

\* the function returns value to its caller
Returned(value) ==
    /\ output' = [done |-> TRUE, value |-> value]
    /\ UNCHANGED <<input, pipelineVars, gateVars>>

CallFilterAndRankResults ==
    /\ input.fn = "filterAndRankResults" /\ ~output.done
    /\ Returned(filterAndRankResultsWith(input.args.config, input.args.results))

CallExtractKeywords ==
    /\ input.fn = "extractKeywords" /\ ~output.done
    /\ Returned(extractKeywords(input.args.query))

CallCalculateRelevanceScore ==
    /\ input.fn = "calculateRelevanceScore" /\ ~output.done
    /\ Returned(calculateRelevanceScore(input.args.content, input.args.query))

CallSanitizeCQLQuery ==
    /\ input.fn = "sanitizeCQLQuery" /\ ~output.done
    /\ Returned(sanitizeCQLQuery(input.args.query))

CallSearchPages ==
    /\ input.fn = "SearchPages" /\ ~output.done
    /\ Returned(SearchPages(input.args.configured, input.args.query))

CallGenerateFallbackResponse ==
    /\ input.fn = "generateFallbackResponse" /\ ~output.done
    /\ Returned(generateFallbackResponseText(input.args.searchResults))

(* ---------------------------- cancellation ---------------------------- *)
\* the positions of ProcessInquiry after the row entered "processing" and
\* before the reply post
MidPipeline == {"searchSlack", "searchConfluence", "generate", "sendResponse"}

\* the caller cancels the ctx it passed while the pipeline is running; the
\* cancellation itself runs no code of the service.  (GenerateResponse is
\* the only reader of ctx, so a cancellation before the pipeline acts as one
\* at "searchSlack", and one after the reply post is never seen.)
Cancel(p) ==
    /\ pc[p] \in MidPipeline
    /\ loc[p].cancelAt = "none"
    /\ loc' = [loc EXCEPT ![p].cancelAt = pc[p]]
    /\ UNCHANGED <<inquiries, reactionEvents, searchResults, replies, pc, extCalls, faults, gateVars, fnVars>>

(* --------------------------- specifications --------------------------- *)
Next ==
    \E p \in Procs :
       \/ RecordReaction(p)
       \/ LookupExisting(p)
       \/ SaveSkipped(p)
       \/ GetMessage(p)
       \/ CreateInquiry(p)
       \/ SaveProcessing(p)
       \/ SearchSlack(p)
       \/ SearchConfluence(p)
       \/ GenerateResponse(p)
       \/ SendResponse(p)
       \/ SaveThread(p)
       \/ Finalize(p)
       \/ LinkReaction(p)
       \/ SaveReaction(p)

\* the pipeline over a store that accepts every write violating no constraint
Spec == Init /\ [][Next]_vars

\* the pipeline over a store that may reject any write
FaultySpec == InitFaulty /\ [][Next]_vars

NextCancellable ==
    \/ Next
    \/ \E p \in Procs : Cancel(p)

\* the pipeline called with a ctx its caller may cancel (processSlackEvent
\* passes context.Background(), which never is)
CancelSpec == Init /\ [][NextCancellable]_vars

NextGate ==
    \/ HandleSlackEvents
    \/ HandleSlashCommands
    \/ HandleInteractiveComponents

\* one request, whatever it is, given to the handler of its entry point
GateSpec == InitGate /\ [][NextGate]_vars

NextFunction ==
    \/ CallFilterAndRankResults
    \/ CallExtractKeywords
    \/ CallCalculateRelevanceScore
    \/ CallSanitizeCQLQuery
    \/ CallSearchPages
    \/ CallGenerateFallbackResponse

\* one function of the pipeline, whatever its arguments, applied once
FunctionSpec == InitFunction /\ [][NextFunction]_vars

(* ------------------------------ claims -------------------------------- *)
\* the inquiry row goroutine p created
Row(p) == inquiries[loc[p].inquiry.ID]

\* goroutine p created an inquiry row
Owner(p) == loc[p].inquiry.ID # 0

\* the fetch of goroutine p returned a non-empty text, and p ran db.Create
PassedFetch(p) == loc[p].createErr \/ Owner(p)

\* the external calls goroutine p has made
CallsOf(p) == {c \in extCalls : c.proc = p}

\* the replies posted to the thread of message m
RepliesTo(m) == {i \in 1..Len(replies) : replies[i].thread = m}

C2_AtMostOneReply ==
    \A m \in Msgs : Cardinality(RepliesTo(m)) <= 1

\* two events raced on an unseen message (both fetched it), both are done,
\* and the thread holds one reply
C2_Witness ==
    \E p, q \in Procs :
       /\ p # q /\ loc[p].messageID = loc[q].messageID
       /\ pc[p] = "done" /\ pc[q] = "done"
       /\ Owner(p) /\ loc[q].createErr
       /\ RepliesTo(loc[p].messageID) = {Row(p).ThreadTimestamp}

\* the reaction_events row of goroutine p
ReactionRow(p) == reactionEvents[loc[p].re.ID]

\* goroutine p found its message known and took the skip branch
Skipped(p) == pc[p] \in {"saveSkipped", "done"} /\ loc[p].re.Processed /\ ~Owner(p)

\* C3: the goroutine whose Inquiry insert was rejected by the uniqueness
\* constraint returns success, and its ReactionEvent ends processed and
\* linked to the inquiry of the winner.
C3_LoserTreatedAsProcessed ==
    \A p \in Procs :
       (pc[p] = "done" /\ loc[p].createErr /\ InquiriesFor(loc[p].messageID) # {})
       => /\ loc[p].ret = "nil"
          /\ ReactionRow(p).Processed
          /\ ReactionRow(p).InquiryID = inquiries[FirstInquiry(loc[p].messageID)].ID

StatusSteps ==
    {<<"pending", "pending">>, <<"pending", "processing">>,
     <<"processing", "processing">>, <<"processing", "completed">>,
     <<"processing", "failed">>, <<"completed", "completed">>, <<"failed", "failed">>}

C6_RowBeforeEveryCall ==
    \A p \in Procs :
       Owner(p) => \A c \in CallsOf(p) : c.rowExisted /\ ~c.rowTerminal

\* C6 amended: the message fetch precedes the insert of the pending row;
\* every other external call (chat search, docs search, answer generation,
\* reply post) is made only by the goroutine that owns the row, while the
\* row exists; and no external call of the owner follows the persistence
\* of the terminal status.
C6_RowBeforePipelineCalls ==
    /\ \A c \in extCalls : c.kind # "getMessage" => (Owner(c.proc) /\ c.rowExisted)
    /\ \A p \in Procs :
          Owner(p) => \A c \in CallsOf(p) :
                         /\ c.kind = "getMessage" => ~c.rowExisted
                         /\ ~c.rowTerminal

\* an inquiry reached a terminal status after its owner made all five
\* kinds of external call
C6_Witness ==
    \E p \in Procs :
       /\ Owner(p) /\ pc[p] = "done" /\ TerminalStatus(Row(p).Status)
       /\ {c.kind : c \in CallsOf(p)} =
             {"getMessage", "slack", "confluence", "generate", "postThreadReply"}

\* C7: when db.Create of the pending row fails, ProcessInquiry returns an
\* error at once: the step inserts no inquiry and no search result, and the
\* goroutine is done, having made no call but the message fetch.
C7_CreateFailureIsFatal ==
    /\ [][\A p \in Procs :
             (~loc[p].createErr /\ loc'[p].createErr)
             => /\ pc'[p] = "done" /\ loc'[p].ret = "error"
                /\ inquiries' = inquiries /\ searchResults' = searchResults
                /\ replies' = replies /\ extCalls' = extCalls]_vars
    /\ [](\A p \in Procs :
             loc[p].createErr
             => /\ pc[p] = "done" /\ loc[p].ret = "error" /\ ~Owner(p)
                /\ \A c \in CallsOf(p) : c.kind = "getMessage")

\* an insert was rejected by the store although the message had no row
C7_Witness ==
    \E p \in Procs :
       /\ loc[p].createErr /\ pc[p] = "done"
       /\ InquiriesFor(loc[p].messageID) = {}

\* C8: a completed inquiry has responseSent and processedAt set, its
\* responseText is the text the answer generation returned to its owner,
\* its replyThreadId is the id the reply post returned for a reply in the
\* thread of its message carrying that text, and neither the generation
\* nor the post of its owner failed.
C8_CompletedIsDelivered ==
    \A p \in Procs :
       (Owner(p) /\ Row(p).Status = "completed")
       => /\ Row(p).ResponseSent /\ Row(p).ProcessedAt
          /\ ~loc[p].genErr /\ ~loc[p].sendErr
          /\ Row(p).ResponseText.kind = "generated"
          /\ Row(p).ResponseText = loc[p].response
          /\ Row(p).ThreadTimestamp \in RepliesTo(Row(p).MessageID)
          /\ replies[Row(p).ThreadTimestamp].ts = Row(p).ThreadTimestamp
          /\ replies[Row(p).ThreadTimestamp].text = FormatResponse(Row(p).ResponseText)

\* an inquiry is completed although the store rejected a write on the way
C8_Witness ==
    \E p \in Procs :
       /\ Owner(p) /\ Row(p).Status = "completed" /\ faults < MaxFaults

\* the calls of kind k goroutine p has made
CallsOfKind(p, k) == {c \in CallsOf(p) : c.kind = k}

Answered == response # NoResponse

\* the verdict of the gate on the request
Verified == verifySlackSignature(signingSecret, clock, request)

\* "v0=" followed by the hex MAC of "v0:" + timestamp + ":" + body under
\* the configured secret
ExpectedSignature ==
    <<"v", "0", "=">> \o
    HexOf(Mac(signingSecret, <<"v", "0", ":">> \o request.timestamp \o <<":">> \o request.body),
          DigestBytes)

\* the timestamp header is a number that the age check lets through
FreshTimestamp ==
    /\ ParseInt(request.timestamp).ok
    /\ ~TooOld(clock, ParseInt(request.timestamp).val)

\* C12: with no signing secret configured the gate returns false for every
\* request, whatever its timestamp, body and signature, and the handler
\* answers 401.
C12_NoSecretRejectsAll ==
    signingSecret = <<>>
    => /\ ~Verified
       /\ Answered => response.code = 401

\* no secret is configured and the request carries a fresh timestamp and
\* the signature that is right for the empty secret; it was answered 401
C12_Witness ==
    /\ signingSecret = <<>> /\ Answered /\ response.code = 401
    /\ request.timestamp = Itoa(clock) /\ request.readable
    /\ request.signature = ExpectedSignature

\* C13: a request whose timestamp header is missing, is not a number of the
\* integer width, or is a number more than ReplayWindow seconds before the
\* clock is rejected, even with the right signature.
C13_StaleTimestampRejected ==
    LET t == ParseInt(request.timestamp) IN
    (Answered /\ (~t.ok \/ t.val < clock - ReplayWindow))
    => (~Verified /\ response.code = 401)

\* C14: with a secret configured and a timestamp the age check lets
\* through, the gate returns true only when the signature header equals
\* the expected signature, and does so whenever the body can be read; a
\* missing signature and a signature with any single character altered are
\* rejected; and no request is let through with another signature.
C14_OnlyExactSignature ==
    /\ (signingSecret # <<>> /\ FreshTimestamp)
       => /\ Verified => request.signature = ExpectedSignature
          /\ (request.signature = ExpectedSignature /\ request.readable) => Verified
          /\ (Answered /\ request.signature # ExpectedSignature) => response.code = 401
    /\ (Answered /\ response.code # 401) => request.signature = ExpectedSignature

\* a secret is configured, the timestamp is the clock's, one character of
\* the signature is altered, and the request was answered 401
C14_Witness ==
    /\ signingSecret # <<>> /\ request.timestamp = Itoa(clock) /\ request.readable
    /\ \E i \in 1..Len(ExpectedSignature) :
          request.signature = [ExpectedSignature EXCEPT ![i] = Other(ExpectedSignature[i])]
    /\ Answered /\ response.code = 401

\* C15: on each of the three entry points a request the gate rejects is
\* answered 401 and nothing else is done: no decoding of the payload, no
\* challenge echo, no goroutine, no read or write of the store.
C15_RejectedDoesNothing ==
    /\ [](( Answered /\ ~Verified)
          => /\ response = [code |-> 401, body |-> "invalid signature"]
             /\ effects = {})
    /\ [][(~Verified /\ response' # response)
          => /\ request.endpoint \in Endpoints
             /\ effects' = effects
             /\ UNCHANGED <<inquiries, reactionEvents, searchResults, replies, pc, loc,
                            extCalls>>]_vars

\* a url_verification sent to the events webhook with a secret configured
\* and a signature cut short was answered 401
C15_Witness ==
    /\ request.endpoint = "events" /\ request.body = <<"u">>
    /\ signingSecret # <<>> /\ request.timestamp = Itoa(clock)
    /\ request.signature = SubSeq(ExpectedSignature, 1, Len(ExpectedSignature) - 1)
    /\ Answered /\ response.code = 401 /\ effects = {}

\* goroutine p was given a trigger-emoji "added" event
TriggerAdded(p) == loc[p].reaction = TriggerEmoji /\ loc[p].eventType = "added"

\* the goroutines that were given an event of the trigger emoji
TriggerObservers == {p \in Procs : pc[p] # "idle" /\ loc[p].reaction = TriggerEmoji}

\* C16: every trigger-emoji event observed, "added" or "removed", has its
\* ReactionEvent row, carrying its event type, once ProcessReactionEvent
\* has returned, and the table holds exactly one row for each such event.
C16_EveryTriggerEventRecorded ==
    /\ \A p \in TriggerObservers :
          pc[p] = "done"
          => /\ loc[p].re.ID \in 1..Len(reactionEvents)
             /\ ReactionRow(p).EventType = loc[p].eventType
    /\ (\A p \in TriggerObservers : pc[p] = "done")
          => Len(reactionEvents) = Cardinality(TriggerObservers)

\* goroutine p was given an event the filter drops
Filtered(p) == pc[p] # "idle" /\ ~TriggerAdded(p)

\* C17: for an event that is not the trigger emoji being added the call
\* returns nil at once: it creates no row, fetches no message, makes no
\* external call and changes no inquiry, search result or reply.
C17_OnlyTriggerAddedActs ==
    /\ [](\A p \in Procs :
             Filtered(p)
             => /\ pc[p] = "done" /\ loc[p].ret = "nil"
                /\ ~Owner(p) /\ ~loc[p].createErr
                /\ loc[p].fetch = "none" /\ CallsOf(p) = {}
                /\ loc[p].re = NoReaction)
    /\ [][\A p \in Procs :
             (pc[p] = "idle" /\ pc'[p] # "idle"
                /\ ~(loc'[p].reaction = TriggerEmoji /\ loc'[p].eventType = "added"))
             => /\ inquiries' = inquiries /\ reactionEvents' = reactionEvents
                /\ searchResults' = searchResults /\ replies' = replies
                /\ extCalls' = extCalls]_vars

\* a "removed" event of the trigger emoji came for a message that has an
\* inquiry in status processing
C17_Witness ==
    \E p, q \in Procs :
       /\ Filtered(p) /\ loc[p].reaction = TriggerEmoji /\ loc[p].eventType = "removed"
       /\ Owner(q) /\ loc[q].messageID = loc[p].messageID
       /\ Row(q).Status = "processing"

\* the fetch of goroutine p failed or gave an empty text
FetchFailed(p) == loc[p].fetch \in {"error", "empty"}

\* C18: when the fetch of a new message fails or gives an empty text the
\* call returns an error; the step creates no inquiry, search result or
\* reply, the goroutine makes no call but the fetch and leaves its
\* ReactionEvent unprocessed; and an event whose lookup finds no row for
\* its message, as after such a failure, goes on to fetch it as new.
C18_EmptyMessageCreatesNothing ==
    /\ [](\A p \in Procs :
             FetchFailed(p)
             => /\ pc[p] = "done" /\ loc[p].ret = "error"
                /\ ~Owner(p) /\ ~loc[p].createErr
                /\ {c.kind : c \in CallsOf(p)} = {"getMessage"}
                /\ ~ReactionRow(p).Processed /\ ReactionRow(p).InquiryID = 0)
    /\ [][\A p \in Procs :
             (loc[p].fetch = "none" /\ loc'[p].fetch \in {"error", "empty"})
             => /\ inquiries' = inquiries /\ searchResults' = searchResults
                /\ replies' = replies /\ reactionEvents' = reactionEvents]_vars
    /\ [][\A p \in Procs :
             (pc[p] = "lookup" /\ InquiriesFor(loc[p].messageID) = {} /\ pc'[p] # "lookup")
             => pc'[p] = "getMessage"]_vars

\* the fetch of a message gave an empty text for one event, and another
\* event for the same message, recorded later, was processed as new and
\* completed
C18_Witness ==
    \E p, q \in Procs :
       /\ loc[p].fetch = "empty" /\ pc[p] = "done"
       /\ loc[q].messageID = loc[p].messageID /\ loc[q].re.ID > loc[p].re.ID
       /\ Owner(q) /\ Row(q).Status = "completed"

\* C19: once the call has returned for a trigger "added" event whose
\* message has an inquiry, created by this call or found by its lookup, the
\* ReactionEvent of the event is processed and linked to that inquiry,
\* whatever the status of the inquiry.
C19_ReturnedEventIsLinked ==
    \A p \in Procs :
       (pc[p] = "done" /\ (Owner(p) \/ Skipped(p)))
       => /\ ReactionRow(p).Processed
          /\ ReactionRow(p).InquiryID = inquiries[FirstInquiry(loc[p].messageID)].ID

\* the results of source src in a sequence of results
FromSource(results, src) == SelectSeq(results, LAMBDA r : r.Source = src)

\* C20: an error of the chat search leaves zero chat results and the docs
\* search is made all the same; an error of the docs search leaves the chat
\* results as they were; with both in error the result is empty; and in
\* every case SearchAll returns to ProcessInquiry, which goes on to the
\* answer generation with the inquiry not marked failed.
C20_SearchNeverFails ==
    /\ [][\A p \in Procs :
             (pc[p] = "searchSlack" /\ pc'[p] # "searchSlack")
             => /\ pc'[p] = "searchConfluence"
                /\ loc'[p].slackErr => loc'[p].all = <<>>
                /\ inquiries' = inquiries]_vars
    /\ [][\A p \in Procs :
             (pc[p] = "searchConfluence" /\ pc'[p] # "searchConfluence")
             => /\ pc'[p] = "generate" /\ loc'[p].ret = "none"
                /\ \E c \in extCalls' : c.proc = p /\ c.kind = "confluence"
                /\ loc'[p].confErr => loc'[p].results = filterAndRankResults(loc[p].all)
                /\ loc[p].slackErr => FromSource(loc'[p].results, "slack") = <<>>
                /\ (loc[p].slackErr /\ loc'[p].confErr) => loc'[p].results = <<>>
                /\ inquiries' = inquiries]_vars
    /\ [][\A p \in Procs :
             (pc[p] = "generate" /\ pc'[p] # "generate")
             => \E c \in extCalls' : c.proc = p /\ c.kind = "generate"]_vars
    /\ [](\A p \in Procs : pc[p] = "generate" => Row(p).Status \notin {"failed", "completed"})

\* both sources were in error, SearchAll returned no result, and the
\* goroutine is about to call the answer generation
C20_Witness ==
    \E p \in Procs :
       /\ pc[p] = "generate" /\ loc[p].slackErr /\ loc[p].confErr
       /\ loc[p].results = <<>> /\ Row(p).Status = "processing"

\* the elements of a sequence
Items(s) == {s[i] : i \in DOMAIN s}

\* the rows of search_results with inquiry_id = id
RowsOf(id) == Items(searchResults[id])

\* the elements of s that are no row of inquiry id
Unsaved(s, id) == {i \in DOMAIN s : s[i] \notin RowsOf(id)}

\* the inserts the store has rejected so far
RejectedSoFar == MaxFaults - faults

\* C21 as stated: every item a source returned is a row of the inquiry
\* before the filter runs, and the sequence SearchAll returns holds rows of
\* the inquiry only.
C21_ReturnedArePersisted ==
    \A p \in Procs :
       Owner(p) => /\ Items(loc[p].all) \subseteq RowsOf(loc[p].inquiry.ID)
                   /\ Items(loc[p].results) \subseteq RowsOf(loc[p].inquiry.ID)

\* C21 (amended): every item a source returned is given to the store
\* before the filter runs, whatever its score; an item is missing from the
\* rows of the inquiry only when the store rejected its insert, so the
\* candidates and the sequence SearchAll returns lack at most as many rows
\* as inserts were rejected, and none when none was.
C21_AcceptedInsertsPersisted ==
    \A p \in Procs :
       Owner(p) => /\ Cardinality(Unsaved(loc[p].all, loc[p].inquiry.ID)) <= RejectedSoFar
                   /\ Cardinality(Unsaved(loc[p].results, loc[p].inquiry.ID)) <= RejectedSoFar

\* SearchAll has returned a result, no insert was rejected, and a row of
\* the inquiry scores below the threshold and is not among the results
C21_Witness ==
    \E p \in Procs :
       /\ pc[p] = "generate" /\ loc[p].results # <<>> /\ RejectedSoFar = 0
       /\ Items(loc[p].results) \subseteq RowsOf(loc[p].inquiry.ID)
       /\ \E r \in RowsOf(loc[p].inquiry.ID) :
             r.Score < SimilarityThreshold /\ r \notin Items(loc[p].results)

\* filterAndRankResults was applied on its own and has returned
Ranked == input.fn = "filterAndRankResults" /\ output.done

\* C22: whatever the results, the threshold and the limit, the output of
\* filterAndRankResults is sorted by score from the highest down, holds
\* only results of the input whose score is at least the threshold, and
\* holds at most maxSearchResults of them.
C22_RankedSortedFilteredCut ==
    Ranked =>
       LET out == output.value
           cfg == input.args.config
       IN /\ \A i \in 1..(Len(out) - 1) : out[i].Score >= out[i + 1].Score
          /\ \A i \in DOMAIN out : out[i].Score >= cfg.SimilarityThreshold
          /\ Items(out) \subseteq Items(input.args.results)
          /\ Len(out) <= cfg.MaxSearchResults

\* three results in rising order of score, the first below the threshold,
\* two above it, and a limit of one: the output is the last result alone
C22_Witness ==
    /\ Ranked
    /\ Len(input.args.results) = 3
    /\ \A i \in 1..2 : input.args.results[i].Score < input.args.results[i + 1].Score
    /\ input.args.results[1].Score < input.args.config.SimilarityThreshold
    /\ input.args.results[2].Score >= input.args.config.SimilarityThreshold
    /\ input.args.config.MaxSearchResults = 1
    /\ output.value = <<input.args.results[3]>>

\* C23: two results of equal score that are both in the output of
\* filterAndRankResults stand there in the order they had in the input.
C23_TiesKeepInputOrder ==
    Ranked =>
       \A i, j \in DOMAIN output.value :
          (i < j /\ output.value[i].Score = output.value[j].Score)
          => output.value[i].SourceID < output.value[j].SourceID

\* calculateRelevanceScore was applied on its own and has returned
Scored == input.fn = "calculateRelevanceScore" /\ output.done

\* sub occurs in s when the case of the letters is left aside
ContainsFold(s, sub) == Contains(ToLower(s), ToLower(sub))

\* the keywords of the query of a scored item, and those the content holds
QueryKeywords == extractKeywords(input.args.query)
KeywordsHeld == {i \in DOMAIN QueryKeywords : ContainsFold(input.args.content, QueryKeywords[i])}

\* C24: the score (in percent) is the number of keywords of the query that
\* occur in the content, the case of the letters left aside, divided by the
\* number of keywords; it lies between 0 and 1, is 0 without keywords, 1
\* when every keyword occurs and 0 when none does; a keyword counts once
\* however often it occurs.
C24_ScoreIsShareOfKeywords ==
    Scored =>
       LET n == Len(QueryKeywords)
           held == Cardinality(KeywordsHeld)
       IN /\ output.value \in 0..100
          /\ n = 0 => output.value = 0
          /\ n > 0 => output.value = (held * 100) \div n
          /\ (n > 0 /\ held = n) => output.value = 100
          /\ held = 0 => output.value = 0

\* a query of two keywords and a content that holds one of them twice, with
\* a capital, and lacks the other: the score is one half
C24_Witness ==
    /\ Scored
    /\ Len(QueryKeywords) = 2
    /\ output.value = 50
    /\ \E i \in KeywordsHeld :
          /\ Occurrences(ToLower(input.args.content), QueryKeywords[i]) >= 2
          /\ ~Contains(input.args.content, QueryKeywords[i])

\* extractKeywords was applied on its own and has returned
Extracted == input.fn = "extractKeywords" /\ output.done

\* punctuation marks of the texts of the model
Punctuation ==
    {".", ",", "!", "?", ";", ":", "(", ")", "[", "]", "{", "}", "\"", "'", "-"}

\* C25: every keyword extractKeywords returns is in small letters, is
\* longer than 2 characters, is no stop word, and has no punctuation mark
\* at its start or at its end.
C25_KeywordsAreClean ==
    Extracted =>
       \A k \in DOMAIN output.value :
          LET w == output.value[k]
          IN /\ Len(w) > 2
             /\ ToLower(w) = w
             /\ w \notin stopWords
             /\ w[1] \notin Punctuation
             /\ w[Len(w)] \notin Punctuation

\* C26: the keywords of a query are a set, no word is there twice; and a
\* query with one of its words said once more scores every content as
\* the query itself does.
C26_KeywordsFormASet ==
    /\ Extracted =>
          \A i, j \in DOMAIN output.value : i # j => output.value[i] # output.value[j]
    /\ Scored =>
          \A w \in Items(Fields(input.args.query)) :
             calculateRelevanceScore(input.args.content, input.args.query \o <<" ">> \o w)
                = output.value

\* sanitizeCQLQuery was applied on its own and has returned
Sanitized == input.fn = "sanitizeCQLQuery" /\ output.done

\* the boolean operators of CQL
Operators == {<<"A", "N", "D">>, <<"O", "R">>, <<"N", "O", "T">>}

\* C27: no word of the output of sanitizeCQLQuery is one of the operators
\* AND, OR, NOT.
C27_NoOperatorLeft ==
    Sanitized => Items(Fields(output.value)) \cap Operators = {}

\* the characters the sanitizer is to remove
Forbidden == {"(", ")", "[", "]", "{", "}", "\"", "'", "\\", "~", "*", "?"}

\* q has none of the forbidden characters, no two white spaces in a row, and
\* at most 100 characters
Harmless(q) ==
    /\ \A i \in DOMAIN q : q[i] \notin Forbidden
    /\ \A i \in 1..(Len(q) - 1) : ~(IsSpace(q[i]) /\ IsSpace(q[i + 1]))
    /\ Len(q) <= CQLMaxLen

\* SearchPages was applied on its own and has returned
Searched == input.fn = "SearchPages" /\ output.done

\* C28: the output of sanitizeCQLQuery has none of the characters
\* ( ) [ ] { } " ' \ ~ * ?, no run of two white spaces or more, and at most
\* 100 characters; SearchPages sends a query only when it is configured,
\* and the query it sends is the output of sanitizeCQLQuery for the query
\* it was given.
C28_OnlySanitizedQueries ==
    /\ Sanitized => Harmless(output.value)
    /\ Searched =>
          /\ output.value.sent = input.args.configured
          /\ output.value.sent =>
                /\ output.value.query = sanitizeCQLQuery(input.args.query)
                /\ Harmless(output.value.query)

\* SearchPages has sent a query for an input that had a forbidden character,
\* two white spaces in a row, and more than 100 bytes
C28_Witness ==
    /\ Searched /\ output.value.sent
    /\ ~Harmless(input.args.query)
    /\ \E i \in DOMAIN input.args.query : input.args.query[i] \in Forbidden
    /\ \E i \in 1..(Len(input.args.query) - 1) :
          IsSpace(input.args.query[i]) /\ IsSpace(input.args.query[i + 1])
    /\ ByteLen(input.args.query) > CQLMaxLen
    /\ ByteLen(output.value.query) = CQLMaxLen

\* the positions of ProcessInquiry before SearchAll has returned
Searching == {"createInquiry", "saveProcessing", "searchSlack", "searchConfluence"}

\* C29: in the pipeline of one inquiry the answer generation is called only
\* after the searches of both sources have returned, and the reply post
\* only after the answer generation has returned, with an answer or with
\* an error; no reply is posted before that.
C29_StepsInSequence ==
    /\ [](\A p \in Procs :
             /\ CallsOfKind(p, "generate") # {}
                => CallsOfKind(p, "slack") # {} /\ CallsOfKind(p, "confluence") # {}
             /\ CallsOfKind(p, "postThreadReply") # {} => CallsOfKind(p, "generate") # {}
             /\ pc[p] \in Searching => CallsOfKind(p, "generate") = {}
             /\ pc[p] \in Searching \cup {"generate"} => CallsOfKind(p, "postThreadReply") = {})
    /\ [][replies' # replies
          => \E p \in Procs :
                /\ pc[p] = "sendResponse" /\ pc'[p] = "saveThread"
                /\ loc[p].response # NoText
                /\ CallsOfKind(p, "slack") # {} /\ CallsOfKind(p, "confluence") # {}
                /\ CallsOfKind(p, "generate") # {}]_vars

\* a reply was posted after the two searches and after an answer generation
\* that returned an error
C29_Witness ==
    \E p \in Procs :
       /\ pc[p] = "saveThread" /\ loc[p].genErr
       /\ RepliesTo(loc[p].messageID) # {}
       /\ CallsOfKind(p, "slack") # {} /\ CallsOfKind(p, "confluence") # {}
       /\ CallsOfKind(p, "generate") # {}

\* goroutine p takes a step in which the store rejects a write
RejectedStep(p, at) == pc[p] = at /\ pc'[p] # at /\ faults' < faults

\* C30: a rejected write of the update to processing, of the update of the
\* reply thread or of the terminal update leaves the pipeline on its way:
\* the search follows the first, the terminal update the second, and the
\* return value after the third is that of a pipeline whose write was
\* accepted; no reply that was posted and no row is taken back.
C30_RejectedWriteDoesNotStop ==
    /\ [][\A p \in Procs :
             /\ RejectedStep(p, "saveProcessing")
                => pc'[p] = "searchSlack" /\ loc'[p].ret = "none"
             /\ RejectedStep(p, "saveThread")
                => pc'[p] = "finalize" /\ loc'[p].ret = "none"
             /\ RejectedStep(p, "finalize")
                => /\ (loc[p].genErr \/ loc[p].sendErr) => loc'[p].ret = "error"
                   /\ ~(loc[p].genErr \/ loc[p].sendErr) => pc'[p] = "linkReaction"]_vars
    /\ [][/\ Len(replies') >= Len(replies)
          /\ SubSeq(replies', 1, Len(replies)) = replies
          /\ Len(inquiries') >= Len(inquiries)]_vars

\* the pipeline has returned nil and its reply is posted, although the
\* terminal update was rejected and the row still says processing
C30_Witness ==
    \E p \in Procs :
       /\ pc[p] = "done" /\ loc[p].ret = "nil" /\ Owner(p)
       /\ Row(p).Status = "processing" /\ faults < MaxFaults
       /\ RepliesTo(loc[p].messageID) # {}

\* generateFallbackResponse was applied on its own and has returned
Summarised == input.fn = "generateFallbackResponse" /\ output.done

\* the lines of a text that open an entry, and the position of the k-th
IsBullet(line) == line # <<>> /\ line[1] = "bullet"
BulletsOf(text) == {i \in DOMAIN text : IsBullet(text[i])}
BulletAt(text, k) ==
    CHOOSE i \in BulletsOf(text) : Cardinality({j \in BulletsOf(text) : j <= i}) = k

\* the lines of the k-th entry below its bullet, up to the empty line
DetailsOf(text, k) ==
    LET b == BulletAt(text, k)
        e == Least({j \in (b + 1)..Len(text) : text[j] = <<>>})
    IN SubSeq(text, b + 1, e - 1)

\* a line without the two spaces it begins with
Unindent(line) == SubSeq(line, 3, Len(line))

\* e is an excerpt of content c: the whole of c, or its first characters
\* followed by "...", with the first byte of the next character in between
\* when the limit cuts through that character; at most 100 characters of c
\* either way
IsExcerpt(e, c) ==
    \E n \in 0..Min(ExcerptMaxLen, Len(c)) :
       LET front == SubSeq(c, 1, n)
       IN \/ n = Len(c) /\ e = front
          \/ n < Len(c) /\ e \in {front \o Ellipsis, front \o <<"e2:1">> \o Ellipsis}

\* C31: given no search result generateFallbackResponse returns the fixed
\* message; given n > 0 results it lists min(3, n) entries, the k-th for the
\* k-th result: its title and its source, then an excerpt of at most 100
\* characters of its content when it has content, then its URL when it has
\* one, and no other line.
C31_FallbackListsTopThree ==
    Summarised =>
       LET results == input.args.searchResults
           text == output.value
       IN IF results = <<>>
          THEN text = <<NoInfoMessage>>
          ELSE /\ text # <<NoInfoMessage>>
               /\ Cardinality(BulletsOf(text)) = Min(3, Len(results))
               /\ \A k \in 1..Min(3, Len(results)) :
                     LET r == results[k]
                         d == DetailsOf(text, k)
                     IN /\ Contains(text[BulletAt(text, k)], r.Title)
                        /\ Contains(text[BulletAt(text, k)], r.Source)
                        /\ Len(d) = (IF r.Content # <<>> THEN 1 ELSE 0)
                                    + (IF r.URL # <<>> THEN 1 ELSE 0)
                        /\ r.Content # <<>> => IsExcerpt(Unindent(d[1]), r.Content)
                        /\ r.URL # <<>> => Unindent(d[Len(d)]) = r.URL

\* four results were given and three are listed: one without content, one
\* with a URL and a content the limit cuts inside a character, one without
\* URL and with a content of more than 100 bytes and fewer characters
C31_Witness ==
    /\ Summarised
    /\ Len(input.args.searchResults) = 4
    /\ Cardinality(BulletsOf(output.value)) = 3
    /\ \E i, j, k \in 1..3 :
          LET r == input.args.searchResults
          IN /\ r[i].Content = <<>> /\ DetailsOf(output.value, i) = <<<<" ", " ">> \o r[i].URL>>
             /\ ByteLen(r[j].Content) > ExcerptMaxLen /\ r[j].URL # <<>>
             /\ Unindent(DetailsOf(output.value, j)[1])
                   = SubSeq(r[j].Content, 1, 99) \o <<"e2:1">> \o Ellipsis
             /\ ByteLen(r[k].Content) > ExcerptMaxLen /\ Len(r[k].Content) < ExcerptMaxLen
             /\ r[k].URL = <<>>
             /\ DetailsOf(output.value, k) = <<<<" ", " ">> \o SubSeq(r[k].Content, 1, 50) \o Ellipsis>>

\* C32: an Inquiry row has responseSent = true exactly when its status is
\* completed; a failed row whose thread holds a reply (the fallback text was
\* delivered) has responseSent = false, processedAt unset, and the thread
\* timestamp of that reply.
C32_SentIffCompleted ==
    \A i \in DOMAIN inquiries :
       LET row == inquiries[i] IN
       /\ row.ResponseSent <=> row.Status = "completed"
       /\ (row.Status = "failed" /\ RepliesTo(row.MessageID) # {})
          => /\ ~row.ResponseSent
             /\ ~row.ProcessedAt
             /\ row.ThreadTimestamp \in RepliesTo(row.MessageID)
             /\ row.ResponseText.kind \in {"noinfo", "summary"}
             /\ replies[row.ThreadTimestamp].text = FormatResponse(row.ResponseText)

\* generation failed, the fallback reply was posted, and the row ended
\* failed with the thread timestamp of that reply
C32_Witness ==
    \E p \in Procs :
       /\ pc[p] = "done" /\ Owner(p) /\ loc[p].genErr /\ ~loc[p].sendErr
       /\ Row(p).Status = "failed" /\ ~Row(p).ResponseSent
       /\ Row(p).ThreadTimestamp \in RepliesTo(Row(p).MessageID)

\* C33: every Inquiry row that is created reaches status completed or
\* failed: once the goroutine that created the row has returned, and so
\* has made its last write, the row is not left pending or processing.
C33_ReturnedInquiryIsTerminal ==
    \A p \in Procs :
       (pc[p] = "done" /\ Owner(p)) => TerminalStatus(Row(p).Status)

\* the rows of reaction_events are sound: a processed one is linked to an
\* inquiry row with its message id, an unprocessed one has no link
LinkedSoundly(events, rows) ==
    \A i \in DOMAIN events :
       IF events[i].Processed
       THEN /\ events[i].InquiryID \in DOMAIN rows
            /\ rows[events[i].InquiryID].ID = events[i].InquiryID
            /\ rows[events[i].InquiryID].MessageID = events[i].MessageID
       ELSE events[i].InquiryID = 0

\* C34: in every state a ReactionEvent row with processed = true has the
\* inquiryId of an existing Inquiry row whose messageId is the event's, and
\* a row with processed = false has no inquiryId; no step removes a
\* ReactionEvent row: the table never gets shorter and every row stays the
\* row of the same event.
C34_ProcessedEventsAreLinked ==
    [][/\ LinkedSoundly(reactionEvents, inquiries)
       /\ LinkedSoundly(reactionEvents', inquiries')
       /\ Len(reactionEvents') >= Len(reactionEvents)
       /\ \A i \in DOMAIN reactionEvents :
             /\ reactionEvents'[i].ID = reactionEvents[i].ID
             /\ reactionEvents'[i].MessageID = reactionEvents[i].MessageID]_vars

\* the table holds a processed event linked to its inquiry and an event
\* that was left unprocessed
C34_Witness ==
    \E i, j \in DOMAIN reactionEvents :
       /\ reactionEvents[i].Processed
       /\ inquiries[reactionEvents[i].InquiryID].MessageID = reactionEvents[i].MessageID
       /\ ~reactionEvents[j].Processed /\ reactionEvents[j].InquiryID = 0
       /\ \A p \in Procs : pc[p] = "done"

\* the goroutines that take the step: the ones whose position changes
Stepping(p) == pc'[p] # pc[p]

\* a step changes in a table (a sequence of rows with a MessageID) only rows
\* of message m: rows of m are updated in place, rows of m are added
OnlyRowsOf(m, old, new) ==
    /\ Len(new) >= Len(old)
    /\ \A i \in DOMAIN new :
          \/ i \in DOMAIN old /\ new[i] = old[i]
          \/ /\ new[i].MessageID = m
             /\ new[i].ID = i
             /\ i \in DOMAIN old => old[i].MessageID = m

\* a step adds search results only to the inquiry of message m, and each
\* added row carries the ID of that inquiry
OnlyResultsOf(m) ==
    \A id \in DOMAIN searchResults :
       \/ searchResults'[id] = searchResults[id]
       \/ /\ id \in DOMAIN inquiries /\ inquiries[id].MessageID = m
          /\ Len(searchResults'[id]) > Len(searchResults[id])
          /\ SubSeq(searchResults'[id], 1, Len(searchResults[id])) = searchResults[id]
          /\ \A k \in (Len(searchResults[id]) + 1)..Len(searchResults'[id]) :
                searchResults'[id][k].InquiryID = id

\* a step posts replies only to the thread of message m
OnlyRepliesTo(m) ==
    /\ Len(replies') >= Len(replies)
    /\ \A i \in DOMAIN replies' :
          \/ i \in DOMAIN replies /\ replies'[i] = replies[i]
          \/ i \notin DOMAIN replies /\ replies'[i].thread = m

\* C35: every step of a goroutine that processes message m writes only rows
\* of m: the Inquiry row of m, SearchResult rows of the inquiry of m, the
\* ReactionEvent rows of m, replies in the thread of m.  So whatever the
\* goroutines for other messages do in between, once a goroutine that
\* created an inquiry has returned and the store rejected no write, the
\* Inquiry row and the ReactionEvent row in the store are the ones the
\* goroutine itself computed.  (Rows are compared as the goroutine holds
\* them: the primary keys are the ones the store gave it.)
C35_WritesStayWithinMessage ==
    [][\A p \in Procs :
          Stepping(p) =>
             LET m == loc'[p].messageID IN
             /\ OnlyRowsOf(m, inquiries, inquiries')
             /\ OnlyRowsOf(m, reactionEvents, reactionEvents')
             /\ OnlyResultsOf(m)
             /\ OnlyRepliesTo(m)
             /\ \A q \in Procs :
                   (pc'[q] = "done" /\ loc'[q].inquiry.ID # 0 /\ faults' = MaxFaults)
                   => /\ inquiries'[loc'[q].inquiry.ID] = loc'[q].inquiry
                      /\ reactionEvents'[loc'[q].re.ID] = loc'[q].re]_vars

\* two goroutines have processed two different messages to the end, their
\* steps interleaved: the one that created its row second finished first
C35_Witness ==
    \E p, q \in Procs :
       /\ pc[p] = "done" /\ pc[q] = "done" /\ Owner(p) /\ Owner(q)
       /\ loc[p].messageID # loc[q].messageID
       /\ Row(p).ID < Row(q).ID
       /\ Row(p).ThreadTimestamp > Row(q).ThreadTimestamp
       /\ Row(q).ThreadTimestamp > 0
       /\ Row(p).Status = "completed" /\ Row(q).Status = "failed"
       /\ searchResults[Row(p).ID] # <<>> /\ searchResults[Row(q).ID] # <<>>

\* searchQuery := strings.Join(keywords, " ") of SearchAll, for query q
JoinedKeywords(q) == Join(extractKeywords(q), <<" ">>)

\* C36: the keywords of the space-joined keywords of a query are the
\* keywords of the query, in the same order; and the score of a content
\* against the joined keywords, which is the one the searches compute, is
\* its score against the query itself.
C36_KeywordsOfKeywords ==
    /\ Extracted => extractKeywords(Join(output.value, <<" ">>)) = output.value
    /\ Scored =>
          /\ extractKeywords(JoinedKeywords(input.args.query)) = QueryKeywords
          /\ calculateRelevanceScore(input.args.content, JoinedKeywords(input.args.query))
                = output.value

\* a query with a word that is a stop word once its punctuation is removed
\* and a keyword that had a capital and punctuation: the joined keywords
\* are another text than the query, and the content holds one keyword of
\* the two
C36_Witness ==
    /\ Scored
    /\ Len(QueryKeywords) = 2
    /\ output.value = 50
    /\ JoinedKeywords(input.args.query) # input.args.query
    /\ JoinedKeywords(input.args.query) # ToLower(input.args.query)
    /\ \E w \in Items(Fields(input.args.query)) :
          /\ ToLower(w) \notin stopWords
          /\ Trim(ToLower(w), TrimCutset) \in stopWords
    /\ \E w \in Items(Fields(input.args.query)) :
          /\ ToLower(w) # w /\ Trim(ToLower(w), TrimCutset) # ToLower(w)
          /\ Trim(ToLower(w), TrimCutset) \in Items(QueryKeywords)

\* how often r stands in the sequence s
CountOf(s, r) == Cardinality({i \in DOMAIN s : s[i] = r})

\* C37: the output of filterAndRankResults holds no result more often than
\* the input does; it holds as many results as the limit allows of those
\* with a score of at least the threshold; and no result of the input with
\* such a score that was left out has a higher score than a result that
\* was kept.
C37_TopOfTheFiltered ==
    Ranked =>
       LET results == input.args.results
           cfg == input.args.config
           out == output.value
           passing == {i \in DOMAIN results : results[i].Score >= cfg.SimilarityThreshold}
       IN /\ \A r \in Items(out) : CountOf(out, r) <= CountOf(results, r)
          /\ Len(out) = Min(Cardinality(passing), cfg.MaxSearchResults)
          /\ \A i \in passing :
                CountOf(out, results[i]) < CountOf(results, results[i])
                => \A j \in DOMAIN out : results[i].Score <= out[j].Score

\* three results pass the threshold, the limit is two, the best result
\* stands last in the input and the one left out stands first
C37_Witness ==
    /\ Ranked
    /\ input.args.config.MaxSearchResults = 2
    /\ Len(output.value) = 2
    /\ \E i, j, k \in DOMAIN input.args.results :
          LET r == input.args.results IN
          /\ i < j /\ j < k
          /\ r[i].Score < r[j].Score /\ r[j].Score < r[k].Score
          /\ r[i].Score >= input.args.config.SimilarityThreshold
          /\ output.value = <<r[k], r[j]>>

\* C38: the gate returns true exactly when a secret is configured, the
\* timestamp header is a number, the clock is at most ReplayWindow seconds
\* past that number, and the signature is the expected one for the body
\* that was read; a timestamp ahead of the clock, by whatever amount, is
\* no reason to reject.
C38_AcceptedExactlyWhenFresh ==
    LET t == ParseInt(request.timestamp) IN
    Answered =>
       (Verified <=> /\ signingSecret # <<>>
                     /\ t.ok
                     /\ clock - t.val <= ReplayWindow
                     /\ request.readable
                     /\ request.signature = ExpectedSignature)

====
